---- MODULE Spec2Model ----
(***************************************************************************)
(* Model of btclib's Partially Signed Bitcoin Transaction container        *)
(* (src/btclib/psbt.py): the map codec, the container codec, the combiner, *)
(* the finalizer.                                                          *)
(*                                                                         *)
(* Python objects are modelled with their identity: a container is an      *)
(* entry of the pool `psbts` (its index is its identity) and every dict    *)
(* is an object of `heap`; a mapping-typed field holds the id of the dict  *)
(* object it refers to, so that two fields can refer to the same dict.     *)
(* bytes, None, int and the other immutable values are modelled by value:  *)
(* a byte string is a sequence of numbers, an optional value is <<>>       *)
(* (None) or <<x>>.   A dict is the sequence of its <<key, value>> pairs   *)
(* in insertion order, with distinct keys.                                 *)
(***************************************************************************)
EXTENDS Integers, Sequences, FiniteSets, TLC

VARIABLES
    psbts,   \* the pool of Psbt objects, by identity
    heap,    \* the dict objects, by identity
    call,    \* the last call made and its arguments
    ret,     \* what that call returned or raised
    pre,     \* psbts and heap as they were when the call was made
    rev      \* combine_psbts of the reversed list, run on fresh copies

vars == <<psbts, heap, call, ret, pre, rev>>

(***************************************************************************)
(* Bounds and sample values                                                *)
(***************************************************************************)
NPsbt == 3        \* containers handed to combine_psbts
MaxSigs == 2      \* partial signatures of a sample input

DictKeySet == {1, 2}

(***************************************************************************)
(* Python dict                                                             *)
(***************************************************************************)
Range(s) == {s[i] : i \in DOMAIN s}

DictKeys(d) == {d[i][1] : i \in DOMAIN d}

DictGet(d, k) == d[CHOOSE i \in DOMAIN d : d[i][1] = k][2]

\* d.values(), in insertion order
DictValues(d) == [i \in DOMAIN d |-> d[i][2]]

\* a == b for two dicts: same keys, same values, whatever the order
DictEq(a, b) == /\ DictKeys(a) = DictKeys(b)
                /\ \A k \in DictKeys(a) : DictGet(a, k) = DictGet(b, k)

\* d[k] = v where a new key goes first
DictSetFirst(d, k, v) ==
    IF k \in DictKeys(d)
    THEN [i \in DOMAIN d |-> IF d[i][1] = k THEN <<k, v>> ELSE d[i]]
    ELSE <<<<k, v>>>> \o d

\* d[k] = v: an existing key keeps its position, a new one goes last
DictSet(d, k, v) ==
    IF k \in DictKeys(d)
    THEN [i \in DOMAIN d |-> IF d[i][1] = k THEN <<k, v>> ELSE d[i]]
    ELSE Append(d, <<k, v>>)

RECURSIVE DictUpdateFrom(_, _, _)
DictUpdateFrom(a, b, i) ==
    IF i > Len(b) THEN a
    ELSE DictUpdateFrom(DictSet(a, b[i][1], b[i][2]), b, i + 1)

\* the dict a after a.update(b), where the first dict of a collision wins
DictUpdateKeepFirst(a, b) ==
    a \o SelectSeq(b, LAMBDA e : e[1] \notin DictKeys(a))

\* the dict a after an a.update(b) that does nothing
DictUpdateNothing(a, b) == a

\* the dict a after a.update(b)
DictUpdate(a, b) == DictUpdateFrom(a, b, 1)

(***************************************************************************)
(* The entities                                                            *)
(***************************************************************************)
\* the mapping-typed fields (Dict[bytes, bytes]) of Psbt, PsbtIn, PsbtOut
MapKeys == {"partial_signatures", "bip32_derivs", "unknown"}

\* the order in which combine_psbts visits the fields
InCombineKeys == <<"non_witness_utxo", "witness_utxo", "partial_signatures",
                   "sighash", "redeem_script", "witness_script",
                   "bip32_derivs", "final_script_sig",
                   "final_script_witness", "unknown">>
OutCombineKeys == <<"redeem_script", "witness_script", "bip32_derivs",
                    "unknown">>
PsbtCombineKeys == <<"tx", "version", "bip32_derivs", "unknown">>

\* bool(value) is False
Falsy(key, v) ==
    CASE key = "tx" -> FALSE
      [] key = "version" -> v = 0
      [] OTHER -> v = <<>>

\* PsbtIn(), the dicts of which are the new objects <<c, "inputs", i, key>>
NewPsbtIn(c, i) ==
    [non_witness_utxo |-> <<>>, witness_utxo |-> <<>>,
     partial_signatures |-> <<c, "inputs", i, "partial_signatures">>,
     sighash |-> <<>>, redeem_script |-> <<>>, witness_script |-> <<>>,
     bip32_derivs |-> <<c, "inputs", i, "bip32_derivs">>,
     final_script_sig |-> <<>>, final_script_witness |-> <<>>,
     unknown |-> <<c, "inputs", i, "unknown">>]

\* PsbtOut()
NewPsbtOut(c, j) ==
    [redeem_script |-> <<>>, witness_script |-> <<>>,
     bip32_derivs |-> <<c, "outputs", j, "bip32_derivs">>,
     unknown |-> <<c, "outputs", j, "unknown">>]

\* the ids of the dict objects a new container c over tx owns
OwnDicts(c, tx) ==
    ({c} \X {"inputs"} \X (DOMAIN tx.vin) \X MapKeys)
    \cup ({c} \X {"outputs"} \X (DOMAIN tx.vout) \X {"bip32_derivs", "unknown"})
    \cup ({c} \X {"psbt"} \X {0} \X {"bip32_derivs", "unknown"})

\* Tx.txid: the identifier of the transaction (the script_sig and the
\* witness of the inputs are empty in a container)
Txid(tx) == <<tx.version, [i \in DOMAIN tx.vin |-> tx.vin[i].prevout], tx.vout>>

\* the transaction as it is
KeepTx(tx) == tx

\* the transaction with script_sig and witness of every input emptied
StripTx(tx) ==
    [tx EXCEPT !.vin = [i \in DOMAIN tx.vin |->
                          [tx.vin[i] EXCEPT !.script_sig = <<>>,
                                            !.witness = <<>>]]]

\* psbt_from_tx(tx), as the new object c
PsbtFromTx(c, tx) ==
    [tx |-> StripTx(tx),
     inputs |-> [i \in DOMAIN tx.vin |-> NewPsbtIn(c, i)],
     outputs |-> [j \in DOMAIN tx.vout |-> NewPsbtOut(c, j)],
     version |-> 0,
     bip32_derivs |-> <<c, "psbt", 0, "bip32_derivs">>,
     unknown |-> <<c, "psbt", 0, "unknown">>]

\* getattr(entity, key), the entity being the container p itself
\* (kind "psbt") or p.inputs[idx] or p.outputs[idx]
GetAttr(p, kind, idx, key) ==
    IF kind = "psbt" THEN p[key] ELSE p[kind][idx][key]

\* setattr(entity, key, v)
SetAttr(p, kind, idx, key, v) ==
    IF kind = "psbt" THEN [p EXCEPT ![key] = v]
    ELSE [p EXCEPT ![kind][idx][key] = v]

\* the value of a field: for a mapping-typed field, the dict it refers to
FieldValue(st, c, kind, idx, key) ==
    LET x == GetAttr(st.psbts[c], kind, idx, key)
    IN IF key \in MapKeys THEN st.heap[x] ELSE x

\* an entity with every dict field replaced by the dict it refers to
ResolveEnt(h, e) ==
    [k \in DOMAIN e |-> IF k \in MapKeys THEN h[e[k]] ELSE e[k]]

\* the container c by value
Resolve(st, c) ==
    LET p == st.psbts[c]
    IN [tx |-> p.tx,
        inputs |-> [i \in DOMAIN p.inputs |-> ResolveEnt(st.heap, p.inputs[i])],
        outputs |-> [j \in DOMAIN p.outputs |-> ResolveEnt(st.heap, p.outputs[j])],
        version |-> p.version,
        bip32_derivs |-> st.heap[p.bip32_derivs],
        unknown |-> st.heap[p.unknown]]

\* a == b for two entities by value (dataclass equality)
EntEq(a, b) ==
    \A k \in DOMAIN a : IF k \in MapKeys THEN DictEq(a[k], b[k]) ELSE a[k] = b[k]

\* a == b for two containers by value
PsbtEq(a, b) ==
    /\ a.tx = b.tx /\ a.version = b.version
    /\ DictEq(a.bip32_derivs, b.bip32_derivs)
    /\ DictEq(a.unknown, b.unknown)
    /\ Len(a.inputs) = Len(b.inputs) /\ Len(a.outputs) = Len(b.outputs)
    /\ \A i \in DOMAIN a.inputs : EntEq(a.inputs[i], b.inputs[i])
    /\ \A j \in DOMAIN a.outputs : EntEq(a.outputs[j], b.outputs[j])

(***************************************************************************)
(* The combiner                                                            *)
(***************************************************************************)
\* _combine_field(psbt_map, out, key) where psbt_map and out are the
\* entities (kind, idx) of the containers src and dst
CombineField(st, src, dst, kind, idx, key) ==
    LET item == GetAttr(st.psbts[src], kind, idx, key)
        attr == GetAttr(st.psbts[dst], kind, idx, key)
        adopt == [st EXCEPT !.psbts[dst] = SetAttr(@, kind, idx, key, item)]
    IN IF key \in MapKeys
       THEN IF st.heap[item] = <<>> THEN st
            ELSE IF st.heap[attr] = <<>> THEN adopt
            ELSE IF ~DictEq(st.heap[attr], st.heap[item])
                 THEN [st EXCEPT !.heap[attr] =
                                    DictUpdate(st.heap[attr], st.heap[item])]
                 ELSE st
       ELSE IF Falsy(key, item) THEN st
            ELSE IF Falsy(key, attr) THEN adopt
            ELSE st

\* the _combine_field calls of combine_psbts for the input i of psbt (the
\* container src) and of final_psbt (the container dst)
CombineInput(st, src, dst, i) ==
    LET f(s, key) == CombineField(s, src, dst, "inputs", i, key)
        s1 == f(st, "non_witness_utxo")
        s2 == f(s1, "witness_utxo")
        s3 == f(s2, "partial_signatures")
        s4 == f(s3, "sighash")
        s5 == f(s4, "redeem_script")
        s6 == f(s5, "witness_script")
        s7 == f(s6, "bip32_derivs")
        s8 == f(s7, "final_script_sig")
        s9 == f(s8, "final_script_witness")
    IN f(s9, "unknown")

\* the same for the output j
CombineOutput(st, src, dst, j) ==
    LET f(s, key) == CombineField(s, src, dst, "outputs", j, key)
        s1 == f(st, "redeem_script")
        s2 == f(s1, "witness_script")
        s3 == f(s2, "bip32_derivs")
    IN f(s3, "unknown")

\* the same for the fields of the container itself
CombineGlobal(st, src, dst) ==
    LET f(s, key) == CombineField(s, src, dst, "psbt", 0, key)
        s1 == f(st, "tx")
        s2 == f(s1, "version")
        s3 == f(s2, "bip32_derivs")
    IN f(s3, "unknown")

\* for i, inp in enumerate(final_psbt.inputs), from the input i on
RECURSIVE CombineInputs(_, _, _, _)
CombineInputs(st, src, dst, i) ==
    IF i > Len(st.psbts[dst].inputs) THEN st
    ELSE CombineInputs(CombineInput(st, src, dst, i), src, dst, i + 1)

\* for i, out in enumerate(final_psbt.outputs), from the output j on
RECURSIVE CombineOutputs(_, _, _, _)
CombineOutputs(st, src, dst, j) ==
    IF j > Len(st.psbts[dst].outputs) THEN st
    ELSE CombineOutputs(CombineOutput(st, src, dst, j), src, dst, j + 1)

\* the body of the loop of combine_psbts for one psbt of psbts[1:]
CombineOne(st, src, dst) ==
    CombineGlobal(CombineOutputs(CombineInputs(st, src, dst, 1), src, dst, 1),
                  src, dst)

\* the loop of combine_psbts over psbts[1:], from psbts[k - 1] on
RECURSIVE CombineFrom(_, _, _)
CombineFrom(st, args, k) ==
    IF k > Len(args) THEN st
    ELSE CombineFrom(CombineOne(st, args[k], args[1]), args, k + 1)

\* the positions of psbts the txid of which combine_psbts compares with
\* that of psbts[0]: only the second
TxidCheckedSecondOnly(args) == {k \in 2..Len(args) : k = 2}

\* the positions of psbts the txid of which combine_psbts compares with
\* that of psbts[0]
TxidChecked(args) == 2..Len(args)

\* combine_psbts(psbts), args being the ids of the containers of the list:
\* the state it leaves and what it returns or raises
CombinePsbts(st, args) ==
    IF \E k \in TxidChecked(args) :
           Txid(st.psbts[args[k]].tx) # Txid(st.psbts[args[1]].tx)
    THEN [st |-> st, ret |-> [kind |-> "raise", err |-> "mismatched psbt.tx.txid"]]
    ELSE [st |-> CombineFrom(st, args, 2), ret |-> [kind |-> "ref", ref |-> args[1]]]

(***************************************************************************)
(* The containers the combiner is run on                                   *)
(***************************************************************************)
\* a transaction of two inputs and one output spending the outputs p, p + 1
SampleTx(p) ==
    [version |-> 1,
     vin |-> <<[prevout |-> p, script_sig |-> <<>>, witness |-> <<>>],
               [prevout |-> p + 1, script_sig |-> <<>>, witness |-> <<>>]>>,
     vout |-> <<50>>]

TxA == SampleTx(1)
TxB == SampleTx(3)

\* the transactions of the containers: the same one for all, or another
\* one for one of the containers after the first
SampleTxs ==
    {[c \in 1..NPsbt |-> IF c = k THEN TxB ELSE TxA] : k \in {0} \cup 2..NPsbt}

\* the dicts of the sample: two of them are disjoint, two collide on the
\* key 1 with different values, two agree on the key 2
SampleDicts == {<<>>, <<<<1, 1>>>>, <<<<2, 1>>>>, <<<<1, 2>>, <<2, 1>>>>}

\* None or b"" and two values
SampleScalars == {<<>>, <<1>>, <<2>>}

\* the fields a signer or an updater fills in
SampleSlots ==
    ({"inputs"} \X (DOMAIN TxA.vin) \X Range(InCombineKeys))
    \cup ({"outputs"} \X (DOMAIN TxA.vout) \X Range(OutCombineKeys))
    \cup ({"psbt"} \X {0} \X {"bip32_derivs", "unknown"})

\* the field (kind, idx, key) of the container c set to v
SetField(st, c, kind, idx, key, v) ==
    IF key \in MapKeys
    THEN [st EXCEPT !.heap[GetAttr(st.psbts[c], kind, idx, key)] = v]
    ELSE [st EXCEPT !.psbts[c] = SetAttr(@, kind, idx, key, v)]

RECURSIVE SetFields(_, _, _, _)
SetFields(st, slot, vals, c) ==
    IF c > Len(vals) THEN st
    ELSE SetFields(SetField(st, c, slot[1], slot[2], slot[3], vals[c]),
                   slot, vals, c + 1)

\* the containers psbt_from_tx makes of the transactions txs
FreshPool(txs) ==
    [psbts |-> [c \in DOMAIN txs |-> PsbtFromTx(c, txs[c])],
     heap |-> [id \in UNION {OwnDicts(c, txs[c]) : c \in DOMAIN txs} |-> <<>>]]

Reverse(s) == [i \in DOMAIN s |-> s[Len(s) + 1 - i]]

NoCall == [op |-> "none"]
NoRet == [kind |-> "none"]

\* NPsbt containers made by psbt_from_tx, in which the parties then filled
\* in one field, each with a value of its own
Init ==
    \E txs \in SampleTxs :
    \E slot \in SampleSlots :
    \E vals \in [1..NPsbt -> IF slot[3] \in MapKeys THEN SampleDicts
                                                    ELSE SampleScalars] :
        LET st == SetFields(FreshPool(txs), slot, vals, 1)
        IN /\ psbts = st.psbts
           /\ heap = st.heap
           /\ call = NoCall
           /\ ret = NoRet
           /\ pre = st
           /\ rev = NoRet

\* combine_psbts([psbts[1], ..., psbts[n]]); for a list of two, rev records
\* what the call on the reversed list of fresh copies of them gives
Combine(n) ==
    LET st == [psbts |-> psbts, heap |-> heap]
        args == [k \in 1..n |-> k]
        r == CombinePsbts(st, args)
        b == IF n = 2 THEN CombinePsbts(st, Reverse(args)) ELSE [ret |-> NoRet]
    IN /\ call = NoCall
       /\ psbts' = r.st.psbts
       /\ heap' = r.st.heap
       /\ ret' = r.ret
       /\ call' = [op |-> "combine", args |-> args]
       /\ pre' = st
       /\ rev' = IF b.ret.kind = "ref"
                 THEN [kind |-> "ref", value |-> Resolve(b.st, b.ret.ref)]
                 ELSE b.ret

Next == \E n \in 1..NPsbt : Combine(n)

Spec == Init /\ [][Next]_vars

(***************************************************************************)
(* The script assembler (btclib.script), as far as the finalizer uses it   *)
(***************************************************************************)
\* bytes.hex(): two hexadecimal digits per byte
Hex(b) == [x \in 1..(2 * Len(b)) |->
             IF x % 2 = 1 THEN b[(x + 1) \div 2] \div 16 ELSE b[x \div 2] % 16]

\* bytes.fromhex()
FromHex(h) == [x \in 1..(Len(h) \div 2) |-> 16 * h[2 * x - 1] + h[2 * x]]

\* the push of a byte string of less than 76 bytes: its length, then it
OpPushdata(data) == <<Len(data)>> \o data

\* the bytes of one token: a number (only 0 is used: OP_0) or the
\* hexadecimal string of the bytes to push
OpToken(tok) == IF tok.int THEN <<tok.v>> ELSE OpPushdata(FromHex(tok.v))

RECURSIVE ScriptSerialize(_)
ScriptSerialize(script) ==
    IF script = <<>> THEN <<>>
    ELSE OpToken(Head(script)) \o ScriptSerialize(Tail(script))

IntTok(n) == [int |-> TRUE, v |-> n]
StrTok(h) == [int |-> FALSE, v |-> h]

(***************************************************************************)
(* The finalizer                                                           *)
(***************************************************************************)
\* the dict objects no field refers to are gone
Collect(st) ==
    LET p == st.psbts
        used == UNION {
            {p[c].bip32_derivs, p[c].unknown}
            \cup UNION {{p[c].inputs[i][k] : k \in MapKeys} : i \in DOMAIN p[c].inputs}
            \cup UNION {{p[c].outputs[j][k] : k \in {"bip32_derivs", "unknown"}} :
                          j \in DOMAIN p[c].outputs}
            : c \in DOMAIN p}
    IN [st EXCEPT !.heap = [id \in used |-> st.heap[id]]]

\* psbt = psbt: the finalizer works on the container it was given
NoCopy(st, c) == [st |-> st, id |-> c]

\* deepcopy(psbt): a new container n, every dict of which is a new object
DeepCopy(st, c) ==
    LET n == Len(st.psbts) + 1
        p == st.psbts[c]
        own(kind, idx, e) ==
            [k \in DOMAIN e |-> IF k \in MapKeys THEN <<n, kind, idx, k>> ELSE e[k]]
        q == [tx |-> p.tx,
              inputs |-> [i \in DOMAIN p.inputs |-> own("inputs", i, p.inputs[i])],
              outputs |-> [j \in DOMAIN p.outputs |-> own("outputs", j, p.outputs[j])],
              version |-> p.version,
              bip32_derivs |-> <<n, "psbt", 0, "bip32_derivs">>,
              unknown |-> <<n, "psbt", 0, "unknown">>]
        new == [id \in OwnDicts(n, p.tx) |->
                  st.heap[GetAttr(p, id[2], id[3], id[4])]]
    IN [st |-> [psbts |-> Append(st.psbts, q), heap |-> st.heap @@ new],
        id |-> n]

\* multi_sig, with one signature too many asked for
MultiSigOver2(sigs) == Len(sigs) > 2

\* multi_sig = len(sigs) > 1
MultiSig(sigs) == Len(sigs) > 1

\* the end of the loop body of finalize_psbt, the scripts being left in
\* the input
ClearSigningDataButScripts(pin, ps, bd) ==
    [pin EXCEPT !.partial_signatures = ps, !.sighash = <<>>, !.bip32_derivs = bd]

\* the end of the loop body of finalize_psbt: the signing data of the input
\* pin is cleared, ps and bd being the two new empty dicts
ClearSigningData(pin, ps, bd) ==
    [pin EXCEPT !.partial_signatures = ps,
                !.sighash = <<>>,
                !.redeem_script = <<>>,
                !.witness_script = <<>>,
                !.bip32_derivs = bd]

\* the body of the loop of finalize_psbt for the input i of the container
\* id, which has signatures; the two dicts it sets are new objects
FinalizeInput(st, id, i) ==
    LET pin == st.psbts[id].inputs[i]
        sigs == DictValues(st.heap[pin.partial_signatures])
        hexsigs == [x \in DOMAIN sigs |-> StrTok(Hex(sigs[x]))]
        sig_ == IF pin.witness_script # <<>>
                THEN ScriptSerialize(<<StrTok(Hex(pin.redeem_script))>>)
                ELSE ScriptSerialize(
                         (IF MultiSig(sigs) THEN <<IntTok(0)>> ELSE <<>>)
                         \o hexsigs \o <<StrTok(Hex(pin.redeem_script))>>)
        wit == IF pin.witness_script # <<>>
               THEN (IF MultiSig(sigs) THEN <<<<>>>> ELSE <<>>)
                    \o sigs \o <<pin.witness_script>>
               ELSE pin.final_script_witness
        ps == <<0 - id, "inputs", i, "partial_signatures">>
        bd == <<0 - id, "inputs", i, "bip32_derivs">>
    IN [psbts |-> [st.psbts EXCEPT ![id].inputs[i] =
                      ClearSigningData(
                          [pin EXCEPT !.final_script_sig = sig_,
                                      !.final_script_witness = wit],
                          ps, bd)],
        heap |-> st.heap @@ (ps :> <<>>) @@ (bd :> <<>>)]

\* not psbt_in.partial_signatures, looked at for the first input only
NoSignaturesFirstOnly(st, id, i) ==
    i = 1 /\ st.heap[st.psbts[id].inputs[i].partial_signatures] = <<>>

\* no input is found to lack signatures
NoSignaturesNever(st, id, i) == FALSE

\* not psbt_in.partial_signatures
NoSignatures(st, id, i) ==
    st.heap[st.psbts[id].inputs[i].partial_signatures] = <<>>

\* the loop of finalize_psbt over the inputs of the container id, from
\* the input i on
RECURSIVE FinalizeFrom(_, _, _)
FinalizeFrom(st, id, i) ==
    IF i > Len(st.psbts[id].inputs)
    THEN [st |-> st, ret |-> [kind |-> "ref", ref |-> id]]
    ELSE IF NoSignatures(st, id, i)
    THEN [st |-> st, ret |-> [kind |-> "raise", err |-> "missing signatures"]]
    ELSE FinalizeFrom(FinalizeInput(st, id, i), id, i + 1)

\* finalize_psbt(psbt), psbt being the container c: the state it leaves
\* and what it returns or raises; when it raises, the copy is gone
FinalizePsbt(st, c) ==
    LET cp == DeepCopy(st, c)
        r == FinalizeFrom(cp.st, cp.id, 1)
        left == IF r.ret.kind = "raise" /\ cp.id # c
                THEN [r.st EXCEPT !.psbts = SubSeq(r.st.psbts, 1, Len(st.psbts))]
                ELSE r.st
    IN [st |-> Collect(left), ret |-> r.ret]

(***************************************************************************)
(* The containers the finalizer is run on                                  *)
(***************************************************************************)
\* the signature the key k makes
SigOf(k) == <<48, k>>

\* the dicts of at most MaxSigs signatures, in every insertion order
SigDicts ==
    UNION {{[x \in 1..n |-> <<<<2, ks[x]>>, SigOf(ks[x])>>] :
              ks \in {s \in [1..n -> 1..MaxSigs] :
                        \A x, y \in 1..n : x # y => s[x] # s[y]}} :
           n \in 0..MaxSigs}

RedeemScripts == {<<>>, <<82, 174>>}
WitnessScripts == {<<>>, <<81, 172>>}
SigHashes == {<<>>, <<1>>}
Derivs == {<<>>, <<<<<<3>>, <<4>>>>>>}

\* what a signer leaves in an input
SignedInputs ==
    [partial_signatures : SigDicts, redeem_script : RedeemScripts,
     witness_script : WitnessScripts, sighash : SigHashes,
     bip32_derivs : Derivs]

RECURSIVE SignInputs(_, _, _)
SignInputs(st, ins, i) ==
    IF i > Len(ins) THEN st
    ELSE LET a == SetField(st, 1, "inputs", i, "partial_signatures",
                           ins[i].partial_signatures)
             b == SetField(a, 1, "inputs", i, "redeem_script", ins[i].redeem_script)
             c == SetField(b, 1, "inputs", i, "witness_script", ins[i].witness_script)
             d == SetField(c, 1, "inputs", i, "sighash", ins[i].sighash)
             e == SetField(d, 1, "inputs", i, "bip32_derivs", ins[i].bip32_derivs)
         IN SignInputs(e, ins, i + 1)

\* one container made by psbt_from_tx, the inputs of which the signers
\* have filled in
FinInit ==
    \E ins \in [DOMAIN TxA.vin -> SignedInputs] :
        LET st == SignInputs(FreshPool(<<TxA>>), ins, 1)
        IN /\ psbts = st.psbts
           /\ heap = st.heap
           /\ call = NoCall
           /\ ret = NoRet
           /\ pre = st
           /\ rev = NoRet

\* finalize_psbt(psbts[c])
Finalize(c) ==
    LET st == [psbts |-> psbts, heap |-> heap]
        r == FinalizePsbt(st, c)
    IN /\ call = NoCall
       /\ psbts' = r.st.psbts
       /\ heap' = r.st.heap
       /\ ret' = r.ret
       /\ call' = [op |-> "finalize", args |-> <<c>>]
       /\ pre' = st
       /\ rev' = rev

FinNext == \E c \in DOMAIN psbts : Finalize(c)

FinSpec == FinInit /\ [][FinNext]_vars

(***************************************************************************)
(* Byte strings and the compact-size integers (btclib.varint)              *)
(***************************************************************************)
\* an exception raised with the message err
Raise(err) == [kind |-> "raise", err |-> err]

\* b[:n], which gives what there is when b is shorter than n
Take(b, n) == SubSeq(b, 1, IF n < Len(b) THEN n ELSE Len(b))

\* b[n:], which is empty when b is not longer than n
Drop(b, n) == SubSeq(b, n + 1, Len(b))

\* the byte strings of a sequence, joined
RECURSIVE Join(_)
Join(bs) == IF bs = <<>> THEN <<>> ELSE Head(bs) \o Join(Tail(bs))

\* n.to_bytes(size, "little")
ToBytesLE(n, size) == [i \in 1..size |-> (n \div (256 ^ (i - 1))) % 256]

\* int.from_bytes(b, "little")
RECURSIVE FromBytesLE(_)
FromBytesLE(b) == IF b = <<>> THEN 0 ELSE b[1] + 256 * FromBytesLE(Tail(b))

\* the number of bytes that follow the first byte of a compact size
VarintExtra(first) ==
    CASE first < 253 -> 0
      [] first = 253 -> 2
      [] first = 254 -> 4
      [] OTHER -> 8

\* a compact size of no byte at all
VarintSerializeNothing(n) == <<>>

\* varint.serialize(n): the minimal compact size of n
VarintSerialize(n) ==
    IF n < 253 THEN <<n>>
    ELSE IF n < 65536 THEN <<253>> \o ToBytesLE(n, 2)
    ELSE <<254>> \o ToBytesLE(n, 4)

\* varint.deserialize can read a compact size at the head of bin
VarintReadable(bin) == bin # <<>> /\ Len(bin) >= 1 + VarintExtra(bin[1])

\* varint.deserialize(bin): the integer at the head of bin, whatever the
\* width it is written with
VarintDeserialize(bin) ==
    IF bin[1] < 253 THEN bin[1]
    ELSE FromBytesLE(SubSeq(bin, 2, 1 + VarintExtra(bin[1])))

(***************************************************************************)
(* The map codec                                                           *)
(***************************************************************************)
\* key in partial_map, looking at the last entry read only
DuplicatedKeyOfLastEntry(key, partial_map) ==
    partial_map # <<>> /\ partial_map[Len(partial_map)][1] = key

\* key in partial_map
DuplicatedKey(key, partial_map) == key \in DictKeys(partial_map)

\* one turn of the loop of deserialize_map, psbt_bin being what is left
\* to read and partial_map the entries read so far: the map returned, the
\* error raised, or what is left and the entries for the next turn
DeserializeMapStep(psbt_bin, partial_map) ==
    IF psbt_bin = <<>> THEN Raise("IndexError")
    ELSE IF psbt_bin[1] = 0
    THEN [kind |-> "map", map |-> partial_map, rest |-> Drop(psbt_bin, 1)]
    ELSE IF ~VarintReadable(psbt_bin) THEN Raise("varint")
    ELSE
      LET key_len == VarintDeserialize(psbt_bin)
          bin1 == Drop(psbt_bin, Len(VarintSerialize(key_len)))
          key == Take(bin1, key_len)
          bin2 == Drop(bin1, key_len)
      IN IF ~VarintReadable(bin2) THEN Raise("varint")
         ELSE
           LET value_len == VarintDeserialize(bin2)
               bin3 == Drop(bin2, Len(VarintSerialize(value_len)))
               value == Take(bin3, value_len)
               bin4 == Drop(bin3, value_len)
           IN IF DuplicatedKey(key, partial_map)
              THEN Raise("duplicated key in psbt map")
              ELSE [kind |-> "next", bin |-> bin4,
                    map |-> DictSet(partial_map, key, value)]

\* the loop of deserialize_map, psbt_bin being what is left to read and
\* partial_map the entries read so far: the turns of DeserializeMapStep
\* taken one after the other
RECURSIVE DeserializeMapFrom(_, _)
DeserializeMapFrom(psbt_bin, partial_map) ==
    IF psbt_bin = <<>> THEN Raise("IndexError")
    ELSE IF psbt_bin[1] = 0
    THEN [kind |-> "map", map |-> partial_map, rest |-> Drop(psbt_bin, 1)]
    ELSE IF ~VarintReadable(psbt_bin) THEN Raise("varint")
    ELSE
      LET key_len == VarintDeserialize(psbt_bin)
          bin1 == Drop(psbt_bin, Len(VarintSerialize(key_len)))
          key == Take(bin1, key_len)
          bin2 == Drop(bin1, key_len)
      IN IF ~VarintReadable(bin2) THEN Raise("varint")
         ELSE
           LET value_len == VarintDeserialize(bin2)
               bin3 == Drop(bin2, Len(VarintSerialize(value_len)))
               value == Take(bin3, value_len)
               bin4 == Drop(bin3, value_len)
           IN IF DuplicatedKey(key, partial_map)
              THEN Raise("duplicated key in psbt map")
              ELSE DeserializeMapFrom(bin4, DictSet(partial_map, key, value))

\* the map at the head of psbt_bin, nothing kept of what follows it
DeserializeMapToTheEnd(psbt_bin) ==
    IF Len(psbt_bin) = 0
    THEN Raise("malformed psbt: at least a map is missing")
    ELSE LET r == DeserializeMapFrom(psbt_bin, <<>>)
         IN IF r.kind = "map" THEN [r EXCEPT !.rest = <<>>] ELSE r

\* deserialize_map(psbt_bin): the map and the bytes that follow it
DeserializeMap(psbt_bin) ==
    IF Len(psbt_bin) = 0
    THEN Raise("malformed psbt: at least a map is missing")
    ELSE DeserializeMapFrom(psbt_bin, <<>>)

\* _serialize_bytes(type_, value): the entry of the key type_
SerializeBytes(type_, value) ==
    VarintSerialize(Len(type_)) \o type_ \o VarintSerialize(Len(value)) \o value

\* _serialize_dict_bytes_bytes(type_, dictionary): one entry per item, the
\* key of which is type_ followed by the key of the item
SerializeDictBytesBytes(type_, dictionary) ==
    Join([i \in DOMAIN dictionary |->
            SerializeBytes(type_ \o dictionary[i][1], dictionary[i][2])])

(***************************************************************************)
(* The transaction and the entries, as far as the container codec uses     *)
(* them (btclib.tx, btclib.psbt_in, btclib.psbt_out)                      *)
(***************************************************************************)
\* Tx(check_validity=False): the transaction of a container under parsing
DefaultTx == [version |-> 0, vin |-> <<>>, vout |-> <<>>]

\* the items of a witness, each behind its length, behind their number
WitnessSerialize(witness) ==
    VarintSerialize(Len(witness))
    \o Join([x \in DOMAIN witness |->
               VarintSerialize(Len(witness[x])) \o witness[x]])

\* one input of Tx.serialize: the previous output, the unlocking script
\* behind its length, the witness
TxInSerialize(tx_in) ==
    <<tx_in.prevout>> \o VarintSerialize(Len(tx_in.script_sig)) \o tx_in.script_sig
    \o WitnessSerialize(tx_in.witness)

\* Tx.serialize(include_witness=True): the version in four bytes, the
\* inputs behind their number, the outputs behind their number
TxSerialize(tx) ==
    ToBytesLE(tx.version, 4)
    \o VarintSerialize(Len(tx.vin)) \o Join([i \in DOMAIN tx.vin |-> TxInSerialize(tx.vin[i])])
    \o VarintSerialize(Len(tx.vout)) \o tx.vout

\* the n items at the head of bin and what follows them, or <<>> when bin
\* is too short
RECURSIVE WitnessItemsDeserialize(_, _, _)
WitnessItemsDeserialize(bin, n, items) ==
    IF n = 0 THEN <<[items |-> items, rest |-> bin]>>
    ELSE IF bin = <<>> \/ Len(bin) < 1 + bin[1] THEN <<>>
    ELSE WitnessItemsDeserialize(Drop(bin, 1 + bin[1]), n - 1,
                                 Append(items, SubSeq(bin, 2, 1 + bin[1])))

\* the n inputs at the head of bin and what follows them, or <<>> when
\* bin is too short
RECURSIVE TxInsDeserialize(_, _, _)
TxInsDeserialize(bin, n, vin) ==
    IF n = 0 THEN <<[vin |-> vin, rest |-> bin]>>
    ELSE IF Len(bin) < 2 \/ Len(bin) < 3 + bin[2] THEN <<>>
    ELSE LET s == bin[2]
             w == WitnessItemsDeserialize(Drop(bin, 3 + s), bin[3 + s], <<>>)
         IN IF w = <<>> THEN <<>>
            ELSE TxInsDeserialize(
                     w[1].rest, n - 1,
                     Append(vin, [prevout |-> bin[1],
                                  script_sig |-> SubSeq(bin, 3, 2 + s),
                                  witness |-> w[1].items]))

\* Tx.deserialize(v)
TxDeserialize(v) ==
    IF Len(v) < 5 THEN Raise("tx")
    ELSE LET ins == TxInsDeserialize(Drop(v, 5), v[5], <<>>)
         IN IF ins = <<>> \/ ins[1].rest = <<>> THEN Raise("tx")
            ELSE LET rest == ins[1].rest
                 IN IF Len(rest) # 1 + rest[1] THEN Raise("tx")
                    ELSE [kind |-> "tx",
                          tx |-> [version |-> FromBytesLE(Take(v, 4)),
                                  vin |-> ins[1].vin,
                                  vout |-> Drop(rest, 1)]]

\* _deserialize_tx(k, v, type_)
DeserializeTx(k, v) ==
    IF Len(k) # 1 THEN Raise("invalid global unsigned tx key length")
    ELSE TxDeserialize(v)

\* _deserialize_int(k, v, type_)
DeserializeInt(k, v) ==
    IF Len(k) # 1 THEN Raise("invalid global version key length")
    ELSE [kind |-> "int", int |-> FromBytesLE(v)]

\* _deserialize_bip32_derivs(k, v, type_): the one item of the entry
DeserializeBip32Derivs(k, v) == <<<<Drop(k, 1), v>>>>

\* b is a byte string
IsBytes(b) == \A x \in DOMAIN b : b[x] \in 0..255

\* _assert_valid_unknown, _assert_valid_bip32_derivs: the keys and the
\* values are byte strings
AssertValidDictBytesBytes(d) ==
    \A i \in DOMAIN d : IsBytes(d[i][1]) /\ IsBytes(d[i][2])

\* PsbtIn.serialize(), PsbtOut.serialize(): the entries of the unknown
\* mapping, the only field the entries of the codec's containers carry
EntrySerialize(st, e) == SerializeDictBytesBytes(<<>>, st.heap[e.unknown])

(***************************************************************************)
(* The container codec                                                     *)
(***************************************************************************)
PSBT_MAGIC_BYTES == <<112, 115, 98, 116>>
PSBT_SEPARATOR == <<255>>
PSBT_DELIMITER == <<0>>

PSBT_GLOBAL_UNSIGNED_TX == <<0>>
PSBT_GLOBAL_XPUB == <<1>>
PSBT_GLOBAL_VERSION == <<251>>

\* _assert_valid_version without its second check
AssertValidVersionRangeOnly(version) ==
    IF ~(0 <= version /\ version \div 65536 <= 65535)
    THEN "invalid version"
    ELSE "ok"

\* _assert_valid_version(version): "ok", or the message of the error
AssertValidVersion(version) ==
    IF ~(0 <= version /\ version \div 65536 <= 65535)
    THEN "invalid version"
    ELSE IF version # 0 THEN "invalid non-zero version"
    ELSE "ok"

\* the check of the version alone
AssertValidVersionOnly(st, c) == AssertValidVersion(st.psbts[c].version)

\* Psbt.assert_valid() of the container c: "ok", or the message of the
\* error (tx.assert_valid and the assert_valid of the entries accept the
\* transactions and the entries of the model)
AssertValid(st, c) ==
    LET p == st.psbts[c]
        bad == {i \in DOMAIN p.tx.vin :
                  p.tx.vin[i].script_sig # <<>> \/ p.tx.vin[i].witness # <<>>}
        first == CHOOSE i \in bad : \A j \in bad : i <= j
    IN IF AssertValidVersion(p.version) # "ok" THEN AssertValidVersion(p.version)
       ELSE IF ~AssertValidDictBytesBytes(st.heap[p.bip32_derivs])
       THEN "invalid bip32_derivs"
       ELSE IF ~AssertValidDictBytesBytes(st.heap[p.unknown])
       THEN "invalid unknown"
       ELSE IF Len(p.tx.vin) # Len(p.inputs)
       THEN "mismatched number of tx.vin and psbt_in"
       ELSE IF bad # {}
       THEN (IF p.tx.vin[first].script_sig # <<>> THEN "non empty script_sig"
                                                  ELSE "non empty witness")
       ELSE IF Len(p.tx.vout) # Len(p.outputs)
       THEN "mismatched number of tx.vout and psbt_out"
       ELSE "ok"

\* Psbt.serialize(assert_valid) of the container c
PsbtSerialize(st, c, assert_valid) ==
    LET p == st.psbts[c]
    IN IF assert_valid /\ AssertValid(st, c) # "ok" THEN Raise(AssertValid(st, c))
       ELSE [kind |-> "bytes",
             bytes |->
               PSBT_MAGIC_BYTES \o PSBT_SEPARATOR
               \o SerializeBytes(PSBT_GLOBAL_UNSIGNED_TX, TxSerialize(p.tx))
               \o (IF p.version # 0
                   THEN SerializeBytes(PSBT_GLOBAL_VERSION, ToBytesLE(p.version, 4))
                   ELSE <<>>)
               \o (IF st.heap[p.bip32_derivs] # <<>>
                   THEN SerializeDictBytesBytes(PSBT_GLOBAL_XPUB, st.heap[p.bip32_derivs])
                   ELSE <<>>)
               \o (IF st.heap[p.unknown] # <<>>
                   THEN SerializeDictBytesBytes(<<>>, st.heap[p.unknown])
                   ELSE <<>>)
               \o PSBT_DELIMITER
               \o Join([i \in DOMAIN p.inputs |->
                          EntrySerialize(st, p.inputs[i]) \o <<0>>])
               \o Join([j \in DOMAIN p.outputs |->
                          EntrySerialize(st, p.outputs[j]) \o <<0>>])]

\* the container under construction in Psbt.deserialize: cls(check_validity=False)
DefaultPsbt ==
    [kind |-> "psbt", tx |-> DefaultTx, version |-> 0,
     bip32_derivs |-> <<>>, unknown |-> <<>>]

\* the loop of Psbt.deserialize over global_map.items(), from the i-th
\* item on: the fields of the container, or the error raised
RECURSIVE DeserializeGlobal(_, _, _)
DeserializeGlobal(global_map, i, psbt) ==
    IF i > Len(global_map) THEN psbt
    ELSE
      LET k == global_map[i][1]
          v == global_map[i][2]
      IN IF Take(k, 1) = PSBT_GLOBAL_UNSIGNED_TX
         THEN LET t == DeserializeTx(k, v)
              IN IF t.kind = "raise" THEN t
                 ELSE DeserializeGlobal(global_map, i + 1, [psbt EXCEPT !.tx = t.tx])
         ELSE IF Take(k, 1) = PSBT_GLOBAL_VERSION
         THEN LET n == DeserializeInt(k, v)
              IN IF n.kind = "raise" THEN n
                 ELSE DeserializeGlobal(global_map, i + 1,
                                        [psbt EXCEPT !.version = n.int])
         ELSE IF Take(k, 1) = PSBT_GLOBAL_XPUB
         THEN DeserializeGlobal(
                  global_map, i + 1,
                  [psbt EXCEPT !.bip32_derivs =
                                  DictUpdate(@, DeserializeBip32Derivs(k, v))])
         ELSE DeserializeGlobal(global_map, i + 1,
                                [psbt EXCEPT !.unknown = DictSet(@, k, v)])

\* the n maps at the head of psbt_bin, the last one read put first
RECURSIVE DeserializeMapsReversed(_, _, _)
DeserializeMapsReversed(psbt_bin, n, maps) ==
    IF n = 0 THEN [kind |-> "maps", maps |-> maps, rest |-> psbt_bin]
    ELSE LET m == DeserializeMap(psbt_bin)
         IN IF m.kind = "raise" THEN m
            ELSE DeserializeMapsReversed(m.rest, n - 1, <<m.map>> \o maps)

\* the loops of Psbt.deserialize over tx.vin and over tx.vout: the n maps
\* at the head of psbt_bin and what follows them, or the error raised
RECURSIVE DeserializeMaps(_, _, _)
DeserializeMaps(psbt_bin, n, maps) ==
    IF n = 0 THEN [kind |-> "maps", maps |-> maps, rest |-> psbt_bin]
    ELSE LET m == DeserializeMap(psbt_bin)
         IN IF m.kind = "raise" THEN m
            ELSE DeserializeMaps(m.rest, n - 1, Append(maps, m.map))

\* the container n that Psbt.deserialize makes of the fields glob and of
\* the maps of the inputs and of the outputs (PsbtIn.deserialize and
\* PsbtOut.deserialize keep the entries of a map as the unknown mapping)
PsbtOfMaps(st, n, glob, ins, outs) ==
    LET q == [PsbtFromTx(n, glob.tx) EXCEPT !.tx = glob.tx,
                                            !.version = glob.version]
        new == [id \in OwnDicts(n, glob.tx) |->
                  IF id[2] = "psbt" THEN glob[id[4]]
                  ELSE IF id[4] # "unknown" THEN <<>>
                  ELSE IF id[2] = "inputs" THEN ins[id[3]]
                  ELSE outs[id[3]]]
    IN [psbts |-> Append(st.psbts, q), heap |-> st.heap @@ new]

\* a reader that refuses a document with bytes after its last map
PsbtDeserializeNothingLeft(st, psbt_bin, assert_valid) ==
    LET n == Len(st.psbts) + 1
        fail(e) == [st |-> st, ret |-> Raise(e.err)]
        g == DeserializeMap(Drop(psbt_bin, 5))
        glob == DeserializeGlobal(g.map, 1, DefaultPsbt)
        ins == DeserializeMaps(g.rest, Len(glob.tx.vin), <<>>)
        outs == DeserializeMaps(ins.rest, Len(glob.tx.vout), <<>>)
        st2 == PsbtOfMaps(st, n, glob, ins.maps, outs.maps)
    IN IF Take(psbt_bin, 4) # PSBT_MAGIC_BYTES
       THEN fail(Raise("malformed psbt: missing magic bytes"))
       ELSE IF Take(Drop(psbt_bin, 4), 1) # PSBT_SEPARATOR
       THEN fail(Raise("malformed psbt: missing separator"))
       ELSE IF g.kind = "raise" THEN fail(g)
       ELSE IF glob.kind = "raise" THEN fail(glob)
       ELSE IF glob.tx.version = 0 THEN fail(Raise("missing transaction"))
       ELSE IF ins.kind = "raise" THEN fail(ins)
       ELSE IF outs.kind = "raise" THEN fail(outs)
       ELSE IF outs.rest # <<>> THEN fail(Raise("malformed psbt: bytes left"))
       ELSE IF assert_valid /\ AssertValid(st2, n) # "ok"
       THEN fail(Raise(AssertValid(st2, n)))
       ELSE [st |-> st2, ret |-> [kind |-> "ref", ref |-> n]]

\* Psbt.deserialize(psbt_bin, assert_valid): the state it leaves and the
\* new container it returns, or the error it raises
PsbtDeserialize(st, psbt_bin, assert_valid) ==
    LET n == Len(st.psbts) + 1
        fail(e) == [st |-> st, ret |-> Raise(e.err)]
        g == DeserializeMap(Drop(psbt_bin, 5))
        glob == DeserializeGlobal(g.map, 1, DefaultPsbt)
        ins == DeserializeMaps(g.rest, Len(glob.tx.vin), <<>>)
        outs == DeserializeMaps(ins.rest, Len(glob.tx.vout), <<>>)
        st2 == PsbtOfMaps(st, n, glob, ins.maps, outs.maps)
    IN IF Take(psbt_bin, 4) # PSBT_MAGIC_BYTES
       THEN fail(Raise("malformed psbt: missing magic bytes"))
       ELSE IF Take(Drop(psbt_bin, 4), 1) # PSBT_SEPARATOR
       THEN fail(Raise("malformed psbt: missing separator"))
       ELSE IF g.kind = "raise" THEN fail(g)
       ELSE IF glob.kind = "raise" THEN fail(glob)
       ELSE IF glob.tx.version = 0 THEN fail(Raise("missing transaction"))
       ELSE IF ins.kind = "raise" THEN fail(ins)
       ELSE IF outs.kind = "raise" THEN fail(outs)
       ELSE IF assert_valid /\ AssertValid(st2, n) # "ok"
       THEN fail(Raise(AssertValid(st2, n)))
       ELSE [st |-> st2, ret |-> [kind |-> "ref", ref |-> n]]

(***************************************************************************)
(* The containers and the documents the container codec is run on          *)
(***************************************************************************)
MaxPool == 2      \* containers the caller holds
MaxEntries == 3   \* entries of a sample map

\* the global unknown mappings: none, keys of no known type, and a key
\* with the leading byte of the version, of a derivation, of the
\* transaction
CodecUnknowns ==
    {<<>>,
     <<<<<<15>>, <<7>>>>>>,
     <<<<<<15, 1>>, <<>>>>, <<<<16>>, <<8>>>>>>,
     <<<<<<251>>, <<0, 0, 0, 0>>>>>>,
     <<<<<<1, 9>>, <<7>>>>>>,
     <<<<<<0, 9>>, <<7>>>>>>}

CodecDerivs == {<<>>, <<<<<<9>>, <<10>>>>>>}

\* the unknown mapping of an input or of an output
CodecEntryUnknowns == {<<>>, <<<<<<16>>, <<3>>>>>>}

\* one container made by psbt_from_tx, with a version and the mappings an
\* updater gave it
CodecInit ==
    \E version \in {0, 1} :
    \E unknown \in CodecUnknowns :
    \E derivs \in CodecDerivs :
    \E in2 \in CodecEntryUnknowns :
    \E out1 \in CodecEntryUnknowns :
        LET a == FreshPool(<<TxA>>)
            b == [a EXCEPT !.psbts[1].version = version]
            c == SetField(b, 1, "psbt", 0, "unknown", unknown)
            d == SetField(c, 1, "psbt", 0, "bip32_derivs", derivs)
            e == SetField(d, 1, "inputs", 2, "unknown", in2)
            st == SetField(e, 1, "outputs", 1, "unknown", out1)
        IN /\ psbts = st.psbts
           /\ heap = st.heap
           /\ call = NoCall
           /\ ret = NoRet
           /\ pre = st
           /\ rev = NoRet

\* a document: the entries of the global map, then the entries of each
\* of the maps that follow it
Document(global, maps) ==
    PSBT_MAGIC_BYTES \o PSBT_SEPARATOR \o global \o PSBT_DELIMITER
    \o Join([i \in DOMAIN maps |-> maps[i] \o PSBT_DELIMITER])

\* the entry of the unsigned transaction TxA
TxEntry == SerializeBytes(PSBT_GLOBAL_UNSIGNED_TX, TxSerialize(TxA))

\* the maps of the inputs and of the output of TxA, empty
NoEntries == [i \in 1..(Len(TxA.vin) + Len(TxA.vout)) |-> <<>>]

\* the values of a version entry
VersionValues == {<<0, 0, 0, 0>>, <<1, 0, 0, 0>>, <<2, 0, 0, 0>>, <<0, 1, 0, 0>>}

\* a document over TxA, the global map of which has the version v
VersionDocument(v) ==
    Document(TxEntry \o SerializeBytes(PSBT_GLOBAL_VERSION, v), NoEntries)

\* documents that are not well formed: no magic bytes, no separator, no
\* transaction, one map short, nothing after the separator
BadDocuments ==
    {<<112, 115, 98, 0, 255>> \o TxEntry \o <<0, 0, 0, 0>>,
     <<112, 115, 98, 116, 0>> \o TxEntry \o <<0, 0, 0, 0>>,
     Document(<<>>, NoEntries),
     Document(TxEntry, <<<<>>, <<>>>>),
     PSBT_MAGIC_BYTES \o PSBT_SEPARATOR}

\* a document over TxA with the version field of the transaction zero
ZeroVersionDocument ==
    Document(SerializeBytes(PSBT_GLOBAL_UNSIGNED_TX,
                            TxSerialize([TxA EXCEPT !.version = 0])),
             NoEntries)

SampleDocuments ==
    {VersionDocument(v) : v \in VersionValues} \cup BadDocuments
    \cup {ZeroVersionDocument}

\* psbts[c].serialize(assert_valid)
Serialize(c, assert_valid) ==
    LET st == [psbts |-> psbts, heap |-> heap]
    IN /\ psbts' = psbts
       /\ heap' = heap
       /\ ret' = PsbtSerialize(st, c, assert_valid)
       /\ call' = [op |-> "serialize", args |-> <<c>>, assert_valid |-> assert_valid]
       /\ pre' = st
       /\ rev' = rev

\* Psbt.deserialize(psbt_bin, assert_valid), the caller keeping the result
Deserialize(psbt_bin, assert_valid) ==
    LET st == [psbts |-> psbts, heap |-> heap]
        r == PsbtDeserialize(st, psbt_bin, assert_valid)
    IN /\ Len(psbts) < MaxPool
       /\ psbts' = r.st.psbts
       /\ heap' = r.st.heap
       /\ ret' = r.ret
       /\ call' = [op |-> "deserialize", bin |-> psbt_bin,
                   assert_valid |-> assert_valid]
       /\ pre' = st
       /\ rev' = rev

\* the caller serializes a container, or parses a sample document or the
\* bytes the last call returned
CodecNext ==
    \/ \E c \in DOMAIN psbts : \E assert_valid \in BOOLEAN :
           Serialize(c, assert_valid)
    \/ \E psbt_bin \in SampleDocuments \cup
                       (IF ret.kind = "bytes" THEN {ret.bytes} ELSE {}) :
       \E assert_valid \in BOOLEAN :
           Deserialize(psbt_bin, assert_valid)

CodecSpec == CodecInit /\ [][CodecNext]_vars

(***************************************************************************)
(* The byte streams the map codec is run on                                *)
(***************************************************************************)
\* the entries of the sample maps: a key of one byte, a key of two, a
\* value of one byte, a value of two that starts with the byte 0x00
SampleEntries == {<<15>>, <<15, 16>>} \X {<<7>>, <<0, 9>>}

\* the lists of at most MaxEntries entries
EntryLists == UNION {[1..n -> SampleEntries] : n \in 0..MaxEntries}

\* the entries es as bytes, without a delimiter
EntriesBytes(es) ==
    Join([i \in DOMAIN es |-> SerializeBytes(es[i][1], es[i][2])])

\* the entries es as bytes, the length of each key written as a compact
\* size of three bytes (0xFD and the length in two bytes)
WideEntriesBytes(es) ==
    Join([i \in DOMAIN es |->
            <<253>> \o ToBytesLE(Len(es[i][1]), 2) \o es[i][1]
            \o VarintSerialize(Len(es[i][2])) \o es[i][2]])

\* what may follow the delimiter of a map
SampleRests == {<<>>, <<0, 15>>}

\* where the entries are read: by deserialize_map itself ("map": the
\* entries and the delimiter, "open": the entries without the delimiter,
\* "cut": the entries without their last byte, "wide": the entries with
\* the length of each key in three bytes), or by Psbt.deserialize as
\* the global map or as the x-th of the maps that follow it, or as each
\* of the k maps of a document that ends after them ("short")
MapPlaces == {<<"map", 0>>, <<"open", 0>>, <<"cut", 0>>, <<"wide", 0>>}
DocumentPlaces ==
    {<<"global", 0>>} \cup ({"entry"} \X (DOMAIN NoEntries))
    \cup ({"short"} \X (0..(Len(NoEntries) - 1)))

\* the bytes handed to the reader for the entries es read at the place w
PlacedBytes(es, rest, w) ==
    CASE w[1] = "map" -> EntriesBytes(es) \o PSBT_DELIMITER \o rest
      [] w[1] = "open" -> EntriesBytes(es)
      [] w[1] = "cut" -> Take(EntriesBytes(es), Len(EntriesBytes(es)) - 1)
      [] w[1] = "wide" -> WideEntriesBytes(es) \o PSBT_DELIMITER \o rest
      [] w[1] = "global" ->
           Document(TxEntry \o EntriesBytes(es), NoEntries) \o rest
      [] w[1] = "short" ->
           Document(TxEntry, [i \in 1..w[2] |-> EntriesBytes(es)])
      [] OTHER ->
           Document(TxEntry, [NoEntries EXCEPT ![w[2]] = EntriesBytes(es)]) \o rest

MapInit ==
    /\ psbts = <<>>
    /\ heap = <<>>
    /\ call = NoCall
    /\ ret = NoRet
    /\ pre = [psbts |-> <<>>, heap |-> <<>>]
    /\ rev = NoRet

\* deserialize_map(psbt_bin), psbt_bin holding the entries es
ReadMap(es, rest, w) ==
    LET psbt_bin == PlacedBytes(es, rest, w)
    IN /\ call = NoCall
       /\ ret' = DeserializeMap(psbt_bin)
       /\ call' = [op |-> "deserialize_map", bin |-> psbt_bin,
                   entries |-> es, place |-> w]
       /\ UNCHANGED <<psbts, heap, pre, rev>>

\* Psbt.deserialize(psbt_bin), a map of psbt_bin holding the entries es
ReadDocument(es, rest, w) ==
    LET st == [psbts |-> psbts, heap |-> heap]
        psbt_bin == PlacedBytes(es, rest, w)
        r == PsbtDeserialize(st, psbt_bin, TRUE)
    IN /\ call = NoCall
       /\ psbts' = r.st.psbts
       /\ heap' = r.st.heap
       /\ ret' = r.ret
       /\ call' = [op |-> "deserialize", bin |-> psbt_bin,
                   entries |-> es, place |-> w]
       /\ pre' = st
       /\ rev' = rev

MapNext ==
    \/ \E es \in EntryLists : \E rest \in SampleRests : \E w \in MapPlaces :
           ReadMap(es, rest, w)
    \/ \E es \in EntryLists : \E rest \in SampleRests : \E w \in DocumentPlaces :
           ReadDocument(es, rest, w)

MapSpec == MapInit /\ [][MapNext]_vars

(***************************************************************************)
(* The combiner: properties                                                *)
(***************************************************************************)
Cur == [psbts |-> psbts, heap |-> heap]

Min(S) == CHOOSE x \in S : \A y \in S : x <= y
Max(S) == CHOOSE x \in S : \A y \in S : x >= y

\* every field of a container p: the entity, its index, the key
AllSlots(p) ==
    ({"inputs"} \X (DOMAIN p.inputs) \X Range(InCombineKeys))
    \cup ({"outputs"} \X (DOMAIN p.outputs) \X Range(OutCombineKeys))
    \cup ({"psbt"} \X {0} \X Range(PsbtCombineKeys))

Combined == call.op = "combine"

\* the containers of the call all have the txid of the first
SameTxids ==
    \A k \in DOMAIN call.args :
        Txid(pre.psbts[call.args[k]].tx) = Txid(pre.psbts[call.args[1]].tx)

\* the field s of the k-th container of the call, before the call
Was(k, s) == FieldValue(pre, call.args[k], s[1], s[2], s[3])

\* the two containers of the call differ in mapping-typed fields only
DifferInMappingsOnly ==
    \A s \in AllSlots(pre.psbts[call.args[1]]) :
        s[3] \notin MapKeys => Was(1, s) = Was(2, s)

\* wherever the two containers of the call both have a key, they have the
\* same value for it
MappingsAgree ==
    \A s \in AllSlots(pre.psbts[call.args[1]]) :
        s[3] \in MapKeys =>
            \A k \in DictKeys(Was(1, s)) \cap DictKeys(Was(2, s)) :
                DictGet(Was(1, s), k) = DictGet(Was(2, s), k)

\* C4, as the claim states it: for any two containers A and B with the same
\* txid that differ only in mapping-typed fields, combine_psbts([A, B]) and
\* combine_psbts([B, A]), each run on fresh copies, yield equal containers.
C4_CommutativeOnMappings ==
    (Combined /\ Len(call.args) = 2 /\ SameTxids /\ DifferInMappingsOnly)
    => /\ ret.kind = "ref"
       /\ rev.kind = "ref"
       /\ PsbtEq(Resolve(Cur, ret.ref), rev.value)

\* C4, amended: for any two containers A and B with the same txid that
\* differ only in mapping-typed fields and whose mappings give the same
\* value to every key they share, combine_psbts([A, B]) and
\* combine_psbts([B, A]), each run on fresh copies, yield equal containers
\* (dicts compared as Python compares them, whatever the insertion order).
C4_CommutativeOnAgreeingMappings ==
    (Combined /\ Len(call.args) = 2 /\ SameTxids /\ DifferInMappingsOnly
     /\ MappingsAgree)
    => /\ ret.kind = "ref"
       /\ rev.kind = "ref"
       /\ PsbtEq(Resolve(Cur, ret.ref), rev.value)

\* C4's case: two containers with disjoint non-empty partial signatures
\* for the second input were combined, and the result has both signatures
C4_Witness ==
    LET s == <<"inputs", 2, "partial_signatures">>
    IN /\ Combined /\ Len(call.args) = 2 /\ SameTxids /\ ret.kind = "ref"
       /\ Was(1, s) # <<>> /\ Was(2, s) # <<>>
       /\ DictKeys(Was(1, s)) \cap DictKeys(Was(2, s)) = {}
       /\ DictKeys(FieldValue(Cur, ret.ref, s[1], s[2], s[3])) = DictKeySet
       /\ DictKeys(rev.value.inputs[2].partial_signatures) = DictKeySet

\* C5: when the txid of any container of the list, at whatever position,
\* differs from that of the first, combine_psbts raises the mismatch error
\* and no container and no dict has been modified.
C5_MismatchRaisesBeforeAnyChange ==
    (Combined /\ ~SameTxids)
    => /\ ret = [kind |-> "raise", err |-> "mismatched psbt.tx.txid"]
       /\ psbts = pre.psbts
       /\ heap = pre.heap

\* C5's case: the third container of three has another txid, the second
\* one carries a value the first lacks, and the call raised
C5_Witness ==
    /\ Combined /\ Len(call.args) = 3 /\ ret.kind = "raise"
    /\ Txid(pre.psbts[2].tx) = Txid(pre.psbts[1].tx)
    /\ Txid(pre.psbts[3].tx) # Txid(pre.psbts[1].tx)
    /\ \E s \in AllSlots(pre.psbts[1]) :
           /\ s[3] \notin {"tx", "version"}
           /\ Was(1, s) = <<>> /\ Was(2, s) # <<>>

\* C6, as the claim states it: after a successful combine_psbts every
\* container of the list, the first included, has the field values it had
\* before the call, and the result is not the same object as any of them.
C6_CombineLeavesItsInputs ==
    (Combined /\ ret.kind = "ref")
    => /\ \A k \in DOMAIN call.args :
              Resolve(Cur, call.args[k]) = Resolve(pre, call.args[k])
       /\ ret.ref \notin Range(call.args)

\* the value the claim C7 gives the field s of the result
FirstSet(s) ==
    LET set == {k \in DOMAIN call.args : ~Falsy(s[3], Was(k, s))}
    IN IF set = {} THEN Was(1, s) ELSE Was(Min(set), s)

\* the mapping the claim C7 gives the field s of the result, as a set of
\* <<key, value>> pairs
UnionLaterWins(s) ==
    LET keys == UNION {DictKeys(Was(k, s)) : k \in DOMAIN call.args}
        last(key) == Max({k \in DOMAIN call.args : key \in DictKeys(Was(k, s))})
    IN {<<key, DictGet(Was(last(key), s), key)>> : key \in keys}

\* C7: combine_psbts over containers with the same txid raises nothing,
\* and in its result every scalar, byte-string or list field has the value
\* of the first container of the list in which it is set, and every mapping
\* field is the union of the mappings of all the containers, the value of
\* the later container winning where a key collides.
C7_TakeFirstElseMerge ==
    (Combined /\ SameTxids)
    => /\ ret.kind = "ref"
       /\ \A s \in AllSlots(pre.psbts[call.args[1]]) :
              LET got == FieldValue(Cur, ret.ref, s[1], s[2], s[3])
              IN IF s[3] \in MapKeys
                 THEN Range(got) = UnionLaterWins(s) /\ Len(got) = Cardinality(Range(got))
                 ELSE got = FirstSet(s)

\* C7's case: of three containers the first lacks the output's unknown
\* mapping, the second and the third have different values for the key 1,
\* and the result has the third's
C7_Witness ==
    LET s == <<"outputs", 1, "unknown">>
    IN /\ Combined /\ Len(call.args) = 3 /\ SameTxids /\ ret.kind = "ref"
       /\ Was(1, s) = <<>>
       /\ Was(2, s) = <<<<1, 1>>>>
       /\ Was(3, s) = <<<<1, 2>>, <<2, 1>>>>
       /\ Range(FieldValue(Cur, ret.ref, s[1], s[2], s[3])) = {<<1, 2>>, <<2, 1>>}

(***************************************************************************)
(* The finalizer: properties                                               *)
(***************************************************************************)
Finalized == call.op = "finalize"

\* the dict objects the container c of the state st refers to
DictsOf(st, c) ==
    LET p == st.psbts[c]
    IN {GetAttr(p, s[1], s[2], s[3]) : s \in {t \in AllSlots(p) : t[3] \in MapKeys}}

\* C8: whether finalize_psbt returns or raises, the container passed in and
\* every dict that existed are as they were before the call, and the
\* container returned is a new object that refers to no dict that existed.
C8_FinalizeWorksOnACopy ==
    Finalized
    => /\ SubSeq(psbts, 1, Len(pre.psbts)) = pre.psbts
       /\ \A id \in DOMAIN pre.heap : id \in DOMAIN heap /\ heap[id] = pre.heap[id]
       /\ ret.kind = "ref"
          => /\ ret.ref \notin DOMAIN pre.psbts
             /\ DictsOf(Cur, ret.ref) \cap DOMAIN pre.heap = {}

\* C8's case: the first input had signatures, a redeem script and a
\* derivation, the second input had no signature, and finalize_psbt raised
C8_Witness ==
    /\ Finalized /\ ret.kind = "raise"
    /\ Was(1, <<"inputs", 1, "partial_signatures">>) # <<>>
    /\ Was(1, <<"inputs", 1, "redeem_script">>) # <<>>
    /\ Was(1, <<"inputs", 1, "bip32_derivs">>) # <<>>
    /\ Was(1, <<"inputs", 2, "partial_signatures">>) = <<>>
    /\ Resolve(Cur, 1) = Resolve(pre, 1)

\* some input of the container of the call had no partial signature
SomeInputUnsigned ==
    \E i \in DOMAIN pre.psbts[call.args[1]].inputs :
        Was(1, <<"inputs", i, "partial_signatures">>) = <<>>

\* C9: finalize_psbt raises the missing-signatures error whenever an input
\* of the container, at whatever position, has no partial signature, and
\* returns a container only when every input has at least one.
C9_MissingSignatures ==
    Finalized
    => IF SomeInputUnsigned
       THEN ret = [kind |-> "raise", err |-> "missing signatures"]
       ELSE ret.kind = "ref"

\* C9's case: the first input had two signatures, the second none, and
\* finalize_psbt raised
C9_Witness ==
    /\ Finalized /\ ret.kind = "raise"
    /\ Len(Was(1, <<"inputs", 1, "partial_signatures">>)) = 2
    /\ Was(1, <<"inputs", 2, "partial_signatures">>) = <<>>

\* the token list of the claim C10 for the input i: 0 if and only if
\* there is more than one signature, the signatures in insertion order,
\* the redeem script
LegacyTokens(i) ==
    LET d == Was(1, <<"inputs", i, "partial_signatures">>)
    IN (IF Len(d) > 1 THEN <<IntTok(0)>> ELSE <<>>)
       \o [x \in DOMAIN d |-> StrTok(Hex(d[x][2]))]
       \o <<StrTok(Hex(Was(1, <<"inputs", i, "redeem_script">>)))>>

\* C10: in the container finalize_psbt returns, the final unlocking script
\* of every input that had no witness script is the serialization of the
\* token list [0 iff more than one signature] + [the signatures in the
\* insertion order of partial_signatures] + [redeem_script].
C10_LegacyFinalScriptSig ==
    (Finalized /\ ret.kind = "ref")
    => \A i \in DOMAIN pre.psbts[call.args[1]].inputs :
           Was(1, <<"inputs", i, "witness_script">>) = <<>>
           => psbts[ret.ref].inputs[i].final_script_sig
                  = ScriptSerialize(LegacyTokens(i))

\* C10's case: the first input had the signatures of the keys 2 and 1, in
\* this order, a redeem script and no witness script, and its final
\* unlocking script is OP_0, the two signatures in this order, the script
C10_Witness ==
    /\ Finalized /\ ret.kind = "ref"
    /\ Was(1, <<"inputs", 1, "witness_script">>) = <<>>
    /\ DictValues(Was(1, <<"inputs", 1, "partial_signatures">>))
           = <<SigOf(2), SigOf(1)>>
    /\ Was(1, <<"inputs", 1, "redeem_script">>) = <<82, 174>>
    /\ psbts[ret.ref].inputs[1].final_script_sig
           = <<0>> \o <<2>> \o SigOf(2) \o <<2>> \o SigOf(1) \o <<2, 82, 174>>

(***************************************************************************)
(* The codecs: properties                                                  *)
(***************************************************************************)
\* the last call was Psbt.deserialize with validation, and psbt_bin is
\* what the container c, which passes assert_valid, serializes to
DeserializedFrom(c) ==
    /\ call.op = "deserialize"
    /\ call.assert_valid
    /\ AssertValid(pre, c) = "ok"
    /\ PsbtSerialize(pre, c, TRUE).bytes = call.bin

\* C1: round trip: for every container C that passes assert_valid,
\* Psbt.deserialize(C.serialize()) returns a container equal to C field
\* for field (tx, inputs, outputs, version, bip32_derivs, unknown).
C1_RoundTrip ==
    \A c \in DOMAIN pre.psbts :
        DeserializedFrom(c) =>
            /\ ret.kind = "ref"
            /\ PsbtEq(Resolve(Cur, ret.ref), Resolve(Cur, c))

\* the key of some entry of es is the key of an earlier entry
RepeatsKey(es) == \E i, j \in DOMAIN es : i < j /\ es[i][1] = es[j][1]

\* the last call read a map that ends with its delimiter
ReadWholeMap ==
    /\ call.op \in {"deserialize_map", "deserialize"}
    /\ call.place[1] \in {"map", "global", "entry"}

\* C2: duplicate-key rejection: reading a map in which a key occurs twice
\* before the delimiter raises the duplicate-key error, be it read by
\* deserialize_map itself or by Psbt.deserialize as the global map or as
\* the map of an input or of an output; no mapping and no container is
\* returned.
C2_DuplicateKeyRejected ==
    (ReadWholeMap /\ RepeatsKey(call.entries)) =>
        /\ ret = Raise("duplicated key in psbt map")
        /\ psbts = pre.psbts

\* a map of three entries, the third with the key of the first, was read
\* and rejected
C2_Witness ==
    /\ call.op = "deserialize_map"
    /\ call.place[1] = "map"
    /\ Len(call.entries) = 3
    /\ call.entries[1][1] = call.entries[3][1]
    /\ call.entries[1][1] # call.entries[2][1]
    /\ call.entries[1][2] # call.entries[3][2]
    /\ ret = Raise("duplicated key in psbt map")

\* C3: version gate: Psbt.deserialize of a document whose global map has
\* the key 0xFB raises an invalid-version error and returns no container
\* when the value encodes a non-zero integer, and returns a container of
\* version 0 when the value is 00000000.
C3_VersionGate ==
    \A v \in VersionValues :
        (/\ call.op = "deserialize"
         /\ call.assert_valid
         /\ call.bin = VersionDocument(v)) =>
            IF FromBytesLE(v) # 0
            THEN /\ ret.kind = "raise"
                 /\ ret.err \in {"invalid version", "invalid non-zero version"}
                 /\ psbts = pre.psbts
            ELSE /\ ret.kind = "ref"
                 /\ psbts[ret.ref].version = 0

\* the document with the version 01000000 was rejected
C3_Witness ==
    /\ call.op = "deserialize"
    /\ call.assert_valid
    /\ call.bin = VersionDocument(<<1, 0, 0, 0>>)
    /\ ret = Raise("invalid non-zero version")

(***************************************************************************)
(* The finalizer: the witness path and the clearing                        *)
(***************************************************************************)
\* the witness stack of the claim C11 for the input i: an empty element if
\* and only if there is more than one signature, the signatures in map
\* order, the witness script
SegwitStack(i) ==
    LET d == Was(1, <<"inputs", i, "partial_signatures">>)
    IN (IF Len(d) > 1 THEN <<<<>>>> ELSE <<>>)
       \o DictValues(d)
       \o <<Was(1, <<"inputs", i, "witness_script">>)>>

\* the unlocking script of the claim C11 for the input i: the push of the
\* redeem script when there is one, nothing otherwise
SegwitScriptSig(i) ==
    LET r == Was(1, <<"inputs", i, "redeem_script">>)
    IN IF r # <<>> THEN OpPushdata(r) ELSE <<>>

\* C11, as the claim states it: in the container finalize_psbt returns,
\* every input that had a witness script has the witness stack [empty
\* element iff more than one signature] + signatures in map order +
\* [witness_script], and its final unlocking script is the push of the
\* redeem script when it had one and is empty when it had none.
C11_SegwitFinalFields ==
    (Finalized /\ ret.kind = "ref")
    => \A i \in DOMAIN pre.psbts[call.args[1]].inputs :
           Was(1, <<"inputs", i, "witness_script">>) # <<>>
           => /\ psbts[ret.ref].inputs[i].final_script_witness = SegwitStack(i)
              /\ psbts[ret.ref].inputs[i].final_script_sig = SegwitScriptSig(i)

\* C12: in the container a successful finalize_psbt returns, every input
\* has no partial signature, no sighash, no redeem script, no witness
\* script and no derivation, whatever the path it was finalized on.
C12_SigningDataCleared ==
    (Finalized /\ ret.kind = "ref")
    => \A i \in DOMAIN psbts[ret.ref].inputs :
           LET pin == psbts[ret.ref].inputs[i]
           IN /\ heap[pin.partial_signatures] = <<>>
              /\ pin.sighash = <<>>
              /\ pin.redeem_script = <<>>
              /\ pin.witness_script = <<>>
              /\ heap[pin.bip32_derivs] = <<>>

\* C12's case: the first input went the legacy path and the second the
\* witness path, both had a sighash, a redeem script and a derivation, and
\* finalize_psbt returned
C12_Witness ==
    /\ Finalized /\ ret.kind = "ref"
    /\ Was(1, <<"inputs", 1, "witness_script">>) = <<>>
    /\ Was(1, <<"inputs", 2, "witness_script">>) # <<>>
    /\ \A i \in {1, 2} :
           /\ Was(1, <<"inputs", i, "sighash">>) # <<>>
           /\ Was(1, <<"inputs", i, "redeem_script">>) # <<>>
           /\ Was(1, <<"inputs", i, "bip32_derivs">>) # <<>>
    /\ psbts[ret.ref].inputs[1].final_script_sig # <<>>
    /\ psbts[ret.ref].inputs[2].final_script_witness # <<>>

(***************************************************************************)
(* The extractor                                                           *)
(***************************************************************************)
\* the body of the loop of extract_tx, the witness never being copied
ExtractInputScriptOnly(vin, psbt_in) ==
    [vin EXCEPT !.script_sig = psbt_in.final_script_sig]

\* the body of the loop of extract_tx for the input vin of the
\* transaction and the entry psbt_in of the container
ExtractInput(vin, psbt_in) ==
    [vin EXCEPT !.script_sig = psbt_in.final_script_sig,
                !.witness = IF psbt_in.final_script_witness # <<>>
                            THEN psbt_in.final_script_witness
                            ELSE @]

\* extract_tx(psbt), psbt being the container c: tx is the object psbt.tx,
\* the inputs of which are assigned to, and it is the object returned
\* (owner is the container whose transaction the object returned is)
ExtractTx(st, c) ==
    LET p == st.psbts[c]
        tx == [p.tx EXCEPT !.vin = [i \in DOMAIN p.tx.vin |->
                                      ExtractInput(p.tx.vin[i], p.inputs[i])]]
    IN [st |-> [st EXCEPT !.psbts[c].tx = tx],
        ret |-> [kind |-> "tx", owner |-> c, tx |-> tx]]

\* what a signer leaves in an input of the containers the extractor is
\* run on
ExtSignedInputs ==
    [partial_signatures : SigDicts, redeem_script : RedeemScripts,
     witness_script : WitnessScripts, sighash : {<<1>>},
     bip32_derivs : {<<>>}]

\* one container over TxA, or over TxA with a witness left in its first
\* input, the inputs of which the signers have filled in
ExtInit ==
    \E ins \in [DOMAIN TxA.vin -> ExtSignedInputs] :
    \E w \in {<<>>, <<<<9>>>>} :
        LET a == SignInputs(FreshPool(<<TxA>>), ins, 1)
            st == [a EXCEPT !.psbts[1].tx.vin[1].witness = w]
        IN /\ psbts = st.psbts
           /\ heap = st.heap
           /\ call = NoCall
           /\ ret = NoRet
           /\ pre = st
           /\ rev = NoRet

\* finalize_psbt(psbts[c]), once
ExtFinalize(c) == Finalize(c)

\* extract_tx(psbts[c]), once
Extract(c) ==
    LET st == [psbts |-> psbts, heap |-> heap]
        r == ExtractTx(st, c)
    IN /\ call.op # "extract"
       /\ psbts' = r.st.psbts
       /\ heap' = r.st.heap
       /\ ret' = r.ret
       /\ call' = [op |-> "extract", args |-> <<c>>,
                   finalized |-> call.op = "finalize" /\ ret = [kind |-> "ref", ref |-> c]]
       /\ pre' = st
       /\ rev' = rev

ExtNext ==
    \/ \E c \in DOMAIN psbts : ExtFinalize(c)
    \/ \E c \in DOMAIN psbts : Extract(c)

ExtSpec == ExtInit /\ [][ExtNext]_vars

(***************************************************************************)
(* The extractor: properties                                               *)
(***************************************************************************)
Extracted == call.op = "extract"

\* C13: the transaction extract_tx returns has, for every input i, the
\* final unlocking script of the entry i as script_sig, and as witness the
\* final witness of the entry i when it is not empty and the witness the
\* transaction input had otherwise.
C13_ExtractCopiesFinalFields ==
    Extracted
    => \A i \in DOMAIN ret.tx.vin :
           LET psbt_in == pre.psbts[call.args[1]].inputs[i]
           IN /\ ret.tx.vin[i].script_sig = psbt_in.final_script_sig
              /\ ret.tx.vin[i].witness =
                     IF psbt_in.final_script_witness # <<>>
                     THEN psbt_in.final_script_witness
                     ELSE pre.psbts[call.args[1]].tx.vin[i].witness

\* C13's case: a finalized container was extracted, the first input of
\* which went the legacy path and kept the witness the transaction had,
\* the second the witness path
C13_Witness ==
    /\ Extracted /\ call.finalized
    /\ pre.psbts[call.args[1]].inputs[1].final_script_witness = <<>>
    /\ pre.psbts[call.args[1]].inputs[1].final_script_sig # <<>>
    /\ ret.tx.vin[1].witness = <<<<9>>>>
    /\ Len(ret.tx.vin[2].witness) = 4

\* C14, as the claim states it: the transaction extract_tx returns is a new
\* object, and a container that passed assert_valid before extract_tx
\* still has empty unlocking scripts and witnesses in its transaction,
\* passes assert_valid and serializes afterwards.
C14_ExtractLeavesTheContainer ==
    (Extracted /\ AssertValid(pre, call.args[1]) = "ok")
    => /\ ret.owner \notin DOMAIN psbts
       /\ \A i \in DOMAIN psbts[call.args[1]].tx.vin :
              /\ psbts[call.args[1]].tx.vin[i].script_sig = <<>>
              /\ psbts[call.args[1]].tx.vin[i].witness = <<>>
       /\ AssertValid(Cur, call.args[1]) = "ok"
       /\ PsbtSerialize(Cur, call.args[1], TRUE).kind = "bytes"

(***************************************************************************)
(* The constructor and the validity check                                  *)
(***************************************************************************)
\* Psbt(tx, inputs, outputs, check_validity=...) with nin new PsbtIn() and
\* nout new PsbtOut(): __post_init__ runs assert_valid when asked to; the
\* state the call leaves and the new container, or the error raised
PsbtConstruct(st, tx, nin, nout, check_validity) ==
    LET n == Len(st.psbts) + 1
        q == [tx |-> tx,
              inputs |-> [i \in 1..nin |-> NewPsbtIn(n, i)],
              outputs |-> [j \in 1..nout |-> NewPsbtOut(n, j)],
              version |-> 0,
              bip32_derivs |-> <<n, "psbt", 0, "bip32_derivs">>,
              unknown |-> <<n, "psbt", 0, "unknown">>]
        ids == ({n} \X {"inputs"} \X (1..nin) \X MapKeys)
               \cup ({n} \X {"outputs"} \X (1..nout) \X {"bip32_derivs", "unknown"})
               \cup ({n} \X {"psbt"} \X {0} \X {"bip32_derivs", "unknown"})
        st2 == [psbts |-> Append(st.psbts, q),
                heap |-> st.heap @@ [id \in ids |-> <<>>]]
    IN IF check_validity /\ AssertValid(st2, n) # "ok"
       THEN [st |-> st, ret |-> Raise(AssertValid(st2, n))]
       ELSE [st |-> st2, ret |-> [kind |-> "ref", ref |-> n]]

\* the transactions handed to the constructor: TxA, TxA with an unlocking
\* script in its first input, TxA with a witness in its second input
SignedTxs ==
    {TxA,
     [TxA EXCEPT !.vin[1].script_sig = <<81>>],
     [TxA EXCEPT !.vin[2].witness = <<<<9>>>>]}

\* the numbers of inputs and of outputs handed to the constructor: those
\* of TxA, one input less, one output more
EntryCounts == {<<2, 1>>, <<1, 1>>, <<2, 2>>}

ValidInit == MapInit

\* Psbt(tx, inputs, outputs, check_validity), the caller keeping the result
Construct(tx, nin, nout, check_validity) ==
    LET st == [psbts |-> psbts, heap |-> heap]
        r == PsbtConstruct(st, tx, nin, nout, check_validity)
    IN /\ Len(psbts) < MaxPool
       /\ psbts' = r.st.psbts
       /\ heap' = r.st.heap
       /\ ret' = r.ret
       /\ call' = [op |-> "construct", tx |-> tx, nin |-> nin, nout |-> nout,
                   check_validity |-> check_validity]
       /\ pre' = st
       /\ rev' = rev

\* psbts[c].assert_valid()
CallAssertValid(c) ==
    LET st == [psbts |-> psbts, heap |-> heap]
    IN /\ ret' = (IF AssertValid(st, c) = "ok" THEN [kind |-> "ok"]
                  ELSE Raise(AssertValid(st, c)))
       /\ call' = [op |-> "assert_valid", args |-> <<c>>]
       /\ pre' = st
       /\ UNCHANGED <<psbts, heap, rev>>

\* the caller makes a container, checks one, serializes one, or parses
\* the bytes the last call returned
ValidNext ==
    \/ \E tx \in SignedTxs : \E n \in EntryCounts : \E check_validity \in BOOLEAN :
           Construct(tx, n[1], n[2], check_validity)
    \/ \E c \in DOMAIN psbts : CallAssertValid(c)
    \/ \E c \in DOMAIN psbts : \E assert_valid \in BOOLEAN :
           Serialize(c, assert_valid)
    \/ \E assert_valid \in BOOLEAN :
           /\ ret.kind = "bytes"
           /\ Deserialize(ret.bytes, assert_valid)

ValidSpec == ValidInit /\ [][ValidNext]_vars

\* the transaction tx has an input with an unlocking script or a witness,
\* or the entries are not as many as its inputs and its outputs
Defective(tx, nin, nout) ==
    \/ \E i \in DOMAIN tx.vin :
           tx.vin[i].script_sig # <<>> \/ tx.vin[i].witness # <<>>
    \/ nin # Len(tx.vin)
    \/ nout # Len(tx.vout)

DefectiveIn(st, c) ==
    Defective(st.psbts[c].tx, Len(st.psbts[c].inputs), Len(st.psbts[c].outputs))

\* the messages of the four checks of the structure
StructuralViolations ==
    {"mismatched number of tx.vin and psbt_in", "non empty script_sig",
     "non empty witness", "mismatched number of tx.vout and psbt_out"}

Refused == ret.kind = "raise" /\ ret.err \in StructuralViolations

\* C15: assert_valid raises for every container of which the transaction
\* has an input with a non-empty script_sig or witness, or of which the
\* inputs or outputs are not as many as those of the transaction; the
\* constructor with check_validity, serialize with assert_valid and
\* deserialize with assert_valid refuse such a container: the first two
\* raise and leave the pool as it was, the last never returns one
C15_DefectiveContainerRefused ==
    /\ (call.op = "assert_valid" /\ DefectiveIn(pre, call.args[1])) => Refused
    /\ (call.op = "construct" /\ call.check_validity
          /\ Defective(call.tx, call.nin, call.nout))
         => (Refused /\ psbts = pre.psbts)
    /\ (call.op = "serialize" /\ call.assert_valid
          /\ DefectiveIn(pre, call.args[1])) => Refused
    /\ (call.op = "deserialize" /\ call.assert_valid /\ ret.kind = "ref")
         => ~DefectiveIn(Cur, ret.ref)
    /\ (call.op = "deserialize" /\ call.assert_valid
          /\ PsbtDeserialize(pre, call.bin, FALSE).ret.kind = "ref"
          /\ DefectiveIn(PsbtDeserialize(pre, call.bin, FALSE).st,
                         PsbtDeserialize(pre, call.bin, FALSE).ret.ref))
         => Refused

\* a document carrying a witness in the transaction was refused by
\* deserialize, after serialize without the check had written it
C15_Witness ==
    /\ call.op = "deserialize"
    /\ call.assert_valid
    /\ ret = Raise("non empty witness")
    /\ \E c \in DOMAIN psbts : psbts[c].tx.vin[2].witness # <<>>

(***************************************************************************)
(* Psbt.deserialize: the transaction and the maps that follow it           *)
(***************************************************************************)
\* the global map of the document psbt_bin, or the error of reading it
GlobalMap(psbt_bin) == DeserializeMap(Drop(psbt_bin, 5))

\* the document has the magic bytes and the separator and its global map
\* is read to its delimiter
WellFramed(psbt_bin) ==
    /\ Take(psbt_bin, 4) = PSBT_MAGIC_BYTES
    /\ Take(Drop(psbt_bin, 4), 1) = PSBT_SEPARATOR
    /\ GlobalMap(psbt_bin).kind = "map"

\* the global map of the document has an entry of the key type 0x00
CarriesTx(psbt_bin) ==
    /\ WellFramed(psbt_bin)
    /\ \E i \in DOMAIN GlobalMap(psbt_bin).map :
           Take(GlobalMap(psbt_bin).map[i][1], 1) = PSBT_GLOBAL_UNSIGNED_TX

\* C16: Psbt.deserialize raises "missing transaction" exactly when the
\* global map of the document has no entry of the unsigned transaction
\* (key type 0x00); it never raises it for a document that carries one,
\* whatever the version field of that transaction is
C16_MissingTransactionIffNoEntry ==
    (call.op = "deserialize" /\ WellFramed(call.bin)) =>
        (ret = Raise("missing transaction") <=> ~CarriesTx(call.bin))

\* the unknown mapping of an entry of the container the last call returned
UnknownOf(kind, idx) == heap[psbts[ret.ref][kind][idx].unknown]

\* the entries es as the mapping deserialize_map makes of them
MapOf(es) == [i \in DOMAIN es |-> <<es[i][1], es[i][2]>>]

\* C17: after the global map Psbt.deserialize reads exactly len(tx.vin)
\* maps of inputs and then len(tx.vout) maps of outputs, in the order of
\* the document: inputs[i] is made of the i-th map after the global one
\* and outputs[j] of the (len(tx.vin) + j)-th; a document that ends after
\* fewer maps than the transaction declares is rejected as malformed
C17_MapsFollowTheTransaction ==
    (call.op = "deserialize" /\ ~RepeatsKey(call.entries)) =>
        /\ call.place[1] = "entry" =>
             /\ ret.kind = "ref"
             /\ Len(psbts[ret.ref].inputs) = Len(TxA.vin)
             /\ Len(psbts[ret.ref].outputs) = Len(TxA.vout)
             /\ \A i \in DOMAIN TxA.vin :
                    UnknownOf("inputs", i) =
                        IF call.place[2] = i THEN MapOf(call.entries) ELSE <<>>
             /\ \A j \in DOMAIN TxA.vout :
                    UnknownOf("outputs", j) =
                        IF call.place[2] = Len(TxA.vin) + j
                        THEN MapOf(call.entries) ELSE <<>>
        /\ call.place[1] = "short" =>
             /\ ret = Raise("malformed psbt: at least a map is missing")
             /\ psbts = pre.psbts

\* two entries were read as the second map after the global one and are
\* the unknown mapping of the second input, bytes following the last map
C17_Witness ==
    /\ call.op = "deserialize"
    /\ call.place = <<"entry", 2>>
    /\ Len(call.entries) = 2
    /\ ret.kind = "ref"
    /\ UnknownOf("inputs", 2) = MapOf(call.entries)
    /\ UnknownOf("inputs", 1) = <<>>
    /\ Len(call.bin) > Len(PlacedBytes(call.entries, <<>>, call.place))

(***************************************************************************)
(* deserialize_map: truncated input and whole maps                         *)
(***************************************************************************)
\* the "malformed psbt" errors
MalformedDocument ==
    {"malformed psbt: at least a map is missing",
     "malformed psbt: missing magic bytes",
     "malformed psbt: missing separator"}

\* C18: deserialize_map raises a "malformed psbt" error on every truncated
\* input: the empty input, an input that ends after complete entries
\* without a delimiter, an input in which a key or a value is shorter than
\* its declared length; it returns no map made of a shortened key or
\* value and raises no error of another kind
C18_TruncatedInputMalformed ==
    (call.op = "deserialize_map" /\ call.place[1] \in {"open", "cut"}) =>
        (ret.kind = "raise" /\ ret.err \in MalformedDocument)

\* C19: for every mapping m with distinct non-empty keys and every byte
\* string rest, deserialize_map(entries(m) + 0x00 + rest) returns exactly
\* (m, rest): reading stops at the first delimiter byte found where the
\* length of a key is expected, and at no 0x00 inside a value or in rest
C19_WholeMapRead ==
    (call.op = "deserialize_map" /\ call.place[1] = "map"
       /\ ~RepeatsKey(call.entries)) =>
        ret = [kind |-> "map",
               map |-> MapOf(call.entries),
               rest |-> Drop(call.bin, Len(EntriesBytes(call.entries)) + 1)]

\* a map of two entries, one with a value that starts with 0x00, was
\* read, and the bytes after its delimiter, 0x00 among them, were returned
C19_Witness ==
    /\ call.op = "deserialize_map"
    /\ call.place[1] = "map"
    /\ Len(call.entries) = 2
    /\ call.entries[1][1] # call.entries[2][1]
    /\ call.entries[1][2] = <<0, 9>>
    /\ ret.kind = "map"
    /\ ret.map = MapOf(call.entries)
    /\ ret.rest = <<0, 15>>

(***************************************************************************)
(* Psbt.assert_signable                                                    *)
(***************************************************************************)
\* the sum of the bytes of s
RECURSIVE SumBytes(_)
SumBytes(s) == IF s = <<>> THEN 0 ELSE s[1] + SumBytes(Drop(s, 1))

\* hash160(s) and sha256(s): digests of one byte
Hash160(s) == (SumBytes(s) + 3 * Len(s)) % 251
Sha256(s) == (2 * SumBytes(s) + Len(s) + 1) % 251

\* the serialized script_pubkey of each type over the payload h: the
\* opcodes of p2pkh_scriptPubKey, p2sh_scriptPubKey, p2wpkh_scriptPubKey
\* and p2wsh_scriptPubKey, the payload being one byte in place of the 20
\* or 32 the push announces
P2sh(h) == <<169, h, 135>>
P2pkh(h) == <<118, 169, h, 136, 172>>
P2wpkh(h) == <<0, 20, h>>
P2wsh(h) == <<0, 32, h>>

\* payload_from_script_pubkey(script_pubkey): the type and the payload
PayloadFromScriptPubkey(script_pubkey) ==
    CASE Len(script_pubkey) = 3 /\ script_pubkey = P2sh(script_pubkey[2]) ->
           <<"p2sh", script_pubkey[2]>>
      [] Len(script_pubkey) = 3 /\ script_pubkey = P2wpkh(script_pubkey[3]) ->
           <<"p2wpkh", script_pubkey[3]>>
      [] Len(script_pubkey) = 3 /\ script_pubkey = P2wsh(script_pubkey[3]) ->
           <<"p2wsh", script_pubkey[3]>>
      [] Len(script_pubkey) = 5 /\ script_pubkey = P2pkh(script_pubkey[3]) ->
           <<"p2pkh", script_pubkey[3]>>
      [] OTHER -> <<"unknown", 255>>

\* tx_in.prevout.txid and tx_in.prevout.vout (the first output, index 1)
PrevoutTxid(tx_in) == tx_in.prevout
PrevoutVout(tx_in) == 1

\* the local variable script_pubkey of assert_signable: not yet assigned
Unbound == [bound |-> FALSE]
Bound(v) == [bound |-> TRUE, v |-> v]

\* the body of the loop of assert_signable for the input i, script_pubkey
\* being the local variable as the earlier inputs left it: the message of
\* the error raised and the values formatted into it, or "ok" and the
\* variable as this input leaves it
AssertSignableInput(p, i, script_pubkey) ==
    LET tx_in == p.tx.vin[i]
        non_witness_utxo == p.inputs[i].non_witness_utxo
        witness_utxo == p.inputs[i].witness_utxo
        redeem_script == p.inputs[i].redeem_script
        witness_script == p.inputs[i].witness_script
        of_utxo(sp) ==
            IF non_witness_utxo # <<>>
            THEN Bound(non_witness_utxo[1].vout[PrevoutVout(tx_in)].script_pubkey)
            ELSE IF witness_utxo # <<>>
            THEN Bound(witness_utxo[1].script_pubkey)
            ELSE sp
        \* lines 132-141
        unwrapped ==
            IF PayloadFromScriptPubkey(witness_utxo[1].script_pubkey)[1] = "p2sh"
            THEN redeem_script
            ELSE witness_utxo[1].script_pubkey
        sp_b == IF witness_utxo # <<>> THEN Bound(unwrapped) ELSE script_pubkey
        \* lines 143-152
        sp_c == IF redeem_script # <<>> THEN of_utxo(sp_b) ELSE sp_b
        \* lines 154-166
        sp_d == IF witness_script = <<>> THEN sp_c
                ELSE IF redeem_script # <<>> THEN Bound(redeem_script)
                ELSE of_utxo(sp_c)
        raised(e, d) == [err |-> e, detail |-> d, script_pubkey |-> sp_d]
        done(e) == raised(e, <<>>)
    IN IF non_witness_utxo # <<>>
          /\ non_witness_utxo[1].txid # PrevoutTxid(tx_in)
       THEN raised("invalid non_witness_utxo txid", <<non_witness_utxo[1].txid>>)
       ELSE IF witness_utxo # <<>>
               /\ PayloadFromScriptPubkey(unwrapped)[1] \notin {"p2wpkh", "p2wsh"}
       THEN done("script type not it ('p2wpkh', 'p2wsh')")
       ELSE IF redeem_script # <<>> /\ ~sp_c.bound
       THEN done("UnboundLocalError")
       ELSE IF redeem_script # <<>>
               /\ Hash160(redeem_script) # PayloadFromScriptPubkey(sp_c.v)[2]
       THEN done("invalid redeem script hash")
       ELSE IF witness_script # <<>> /\ ~sp_d.bound
       THEN done("UnboundLocalError")
       ELSE IF witness_script # <<>>
               /\ Sha256(witness_script) # PayloadFromScriptPubkey(sp_d.v)[2]
       THEN done("invalid witness script hash")
       ELSE done("ok")

\* the loop of assert_signable from the input i on: the error raised, with
\* the input the loop was at, or "ok"
RECURSIVE AssertSignableFrom(_, _, _)
AssertSignableFrom(p, i, script_pubkey) ==
    IF i > Len(p.tx.vin) THEN [err |-> "ok", detail |-> <<>>, i |-> 0]
    ELSE LET r == AssertSignableInput(p, i, script_pubkey)
         IN IF r.err # "ok" THEN [err |-> r.err, detail |-> r.detail, i |-> i]
            ELSE AssertSignableFrom(p, i + 1, r.script_pubkey)

\* Psbt.assert_signable() of the container c: "ok", or the error raised
AssertSignable(st, c) == AssertSignableFrom(st.psbts[c], 1, Unbound).err

\* the values formatted into the message of the error raised
AssertSignableDetail(st, c) == AssertSignableFrom(st.psbts[c], 1, Unbound).detail

\* the scripts of the sample: two witness scripts, a redeem script that
\* wraps the first of them, a redeem script that wraps a key hash
WitnessScriptA == <<81, 172>>
WitnessScriptB == <<82, 174>>
RedeemScriptA == P2wsh(Sha256(WitnessScriptA))
RedeemScriptB == P2wpkh(9)

\* the outputs an input may spend
SpentOutputs ==
    {[script_pubkey |-> sp] :
        sp \in {P2sh(Hash160(RedeemScriptA)), P2sh(Hash160(RedeemScriptB)),
                P2wsh(Sha256(WitnessScriptA)), P2wpkh(9), P2pkh(9)}}

\* the previous transactions an updater may attach to the input tx_in:
\* the one it refers to, with either of two outputs, and another one
PreviousTxs(tx_in) ==
    {[txid |-> PrevoutTxid(tx_in),
      vout |-> <<[script_pubkey |-> P2sh(Hash160(RedeemScriptA))]>>],
     [txid |-> PrevoutTxid(tx_in),
      vout |-> <<[script_pubkey |-> P2wsh(Sha256(WitnessScriptA))]>>],
     [txid |-> PrevoutTxid(tx_in) + 100,
      vout |-> <<[script_pubkey |-> P2sh(Hash160(RedeemScriptA))]>>]}

Optional(S) == {<<>>} \cup {<<x>> : x \in S}

\* what an updater may have put into the input i of a container over TxA
UpdatedInputs(i) ==
    [non_witness_utxo : Optional(PreviousTxs(TxA.vin[i])),
     witness_utxo : Optional(SpentOutputs),
     redeem_script : {<<>>, RedeemScriptA, RedeemScriptB},
     witness_script : {<<>>, WitnessScriptA, WitnessScriptB}]

UpdateInput(st, c, i, u) ==
    [st EXCEPT !.psbts[c].inputs[i].non_witness_utxo = u.non_witness_utxo,
               !.psbts[c].inputs[i].witness_utxo = u.witness_utxo,
               !.psbts[c].inputs[i].redeem_script = u.redeem_script,
               !.psbts[c].inputs[i].witness_script = u.witness_script]

\* one container made by psbt_from_tx, its inputs updated
SignInit ==
    \E u1 \in UpdatedInputs(1) :
    \E u2 \in UpdatedInputs(2) :
        LET st == UpdateInput(UpdateInput(FreshPool(<<TxA>>), 1, 1, u1), 1, 2, u2)
        IN /\ psbts = st.psbts
           /\ heap = st.heap
           /\ call = NoCall
           /\ ret = NoRet
           /\ pre = st
           /\ rev = NoRet

\* psbts[c].assert_signable()
CallAssertSignable(c) ==
    LET st == [psbts |-> psbts, heap |-> heap]
    IN /\ call = NoCall
       /\ ret' = (IF AssertSignable(st, c) = "ok" THEN [kind |-> "ok"]
                  ELSE [kind |-> "raise", err |-> AssertSignable(st, c),
                        detail |-> AssertSignableDetail(st, c)])
       /\ call' = [op |-> "assert_signable", args |-> <<c>>]
       /\ pre' = st
       /\ UNCHANGED <<psbts, heap, rev>>

SignNext == \E c \in DOMAIN psbts : CallAssertSignable(c)

SignSpec == SignInit /\ [][SignNext]_vars

\* the errors of assert_signable that tell a violated condition
SemanticViolations ==
    {"invalid non_witness_utxo txid", "script type not it ('p2wpkh', 'p2wsh')",
     "invalid redeem script hash", "invalid witness script hash"}

\* the script_pubkey of the output the input i of p spends, as the UTXO of
\* this input tells it: <<>> when the input has no UTXO
UtxoScriptPubkey(p, i) ==
    IF p.inputs[i].non_witness_utxo # <<>>
    THEN <<p.inputs[i].non_witness_utxo[1].vout[PrevoutVout(p.tx.vin[i])].script_pubkey>>
    ELSE IF p.inputs[i].witness_utxo # <<>>
    THEN <<p.inputs[i].witness_utxo[1].script_pubkey>>
    ELSE <<>>

\* the conditions (a) to (d) for the input i of p
SignableInput(p, i) ==
    LET e == p.inputs[i]
        utxo == UtxoScriptPubkey(p, i)
        wsp == e.witness_utxo[1].script_pubkey
    IN /\ e.non_witness_utxo # <<>> =>
            e.non_witness_utxo[1].txid = PrevoutTxid(p.tx.vin[i])
       /\ e.witness_utxo # <<>> =>
            PayloadFromScriptPubkey(
                IF PayloadFromScriptPubkey(wsp)[1] = "p2sh"
                THEN e.redeem_script ELSE wsp)[1] \in {"p2wpkh", "p2wsh"}
       /\ e.redeem_script # <<>> =>
            /\ utxo # <<>>
            /\ Hash160(e.redeem_script) = PayloadFromScriptPubkey(utxo[1])[2]
       /\ e.witness_script # <<>> =>
            IF e.redeem_script # <<>>
            THEN Sha256(e.witness_script) = PayloadFromScriptPubkey(e.redeem_script)[2]
            ELSE /\ utxo # <<>>
                 /\ Sha256(e.witness_script) = PayloadFromScriptPubkey(utxo[1])[2]

\* C20: assert_signable succeeds if and only if every input meets the
\* conditions (a) non-witness UTXO of the txid of the prevout, (b) witness
\* UTXO of type p2wpkh or p2wsh after unwrapping one level of p2sh through
\* the redeem script, (c) HASH160 of the redeem script equal to the hash
\* in the script_pubkey of the UTXO, (d) SHA256 of the witness script
\* equal to the hash in the redeem script if there is one, else in the
\* script_pubkey of the UTXO; otherwise it raises one of its errors
C20_SignableIffConditions ==
    call.op = "assert_signable" =>
        LET p == pre.psbts[call.args[1]]
        IN IF \A i \in DOMAIN p.tx.vin : SignableInput(p, i)
           THEN ret = [kind |-> "ok"]
           ELSE ret.kind = "raise" /\ ret.err \in SemanticViolations

\* the input assert_signable was at when it raised (0 when it did not)
FailedInput(p) == AssertSignableFrom(p, 1, Unbound).i

\* C21: when assert_signable rejects a container for one of the four
\* reasons (txid of the non-witness UTXO, script type of the witness UTXO,
\* hash of the redeem script, hash of the witness script), the error it
\* raises tells the reason and the index of the input that failed: the
\* index (counted from 0 or from 1) is among the values of the message
C21_ErrorNamesInputAndReason ==
    (call.op = "assert_signable" /\ ret.kind = "raise"
       /\ ret.err \in SemanticViolations) =>
        LET i == FailedInput(pre.psbts[call.args[1]])
        IN i \in Range(ret.detail) \/ (i - 1) \in Range(ret.detail)

(***************************************************************************)
(* The life of the containers: made, signed, combined, finalized           *)
(***************************************************************************)
MaxHeld == 3   \* containers the caller holds

\* psbt_from_tx(tx), the caller keeping the result: the state the call
\* leaves, the new container, and the argument as the call leaves it (the
\* function works on a deepcopy of it)
PsbtFromTxCall(st, tx) ==
    LET n == Len(st.psbts) + 1
    IN [st |-> [psbts |-> Append(st.psbts, PsbtFromTx(n, tx)),
                heap |-> st.heap @@ [id \in OwnDicts(n, tx) |-> <<>>]],
        ret |-> [kind |-> "ref", ref |-> n],
        tx |-> tx]

\* the transactions of the caller: TxA as a signed transaction, with an
\* unlocking script and a witness (every container is over TxA, so that
\* any of them can be combined)
LifeTxs ==
    {[TxA EXCEPT !.vin[1].script_sig = <<81>>, !.vin[2].witness = <<<<9>>>>]}

\* the documents of the caller: one over TxA with an entry in the map of
\* the first input, one of version 1
LifeDocuments ==
    {Document(TxEntry, [NoEntries EXCEPT ![1] = SerializeBytes(<<15>>, <<7>>)]),
     VersionDocument(<<1, 0, 0, 0>>)}

\* what a signer adds to every input: a signature of its key, and the
\* witness script if the inputs are segwit ones
LifeSignatures ==
    {<<<<<<<<2, 1>>, SigOf(1)>>>>, <<>>>>,
     <<<<<<<<2, 2>>, SigOf(2)>>>>, <<81, 172>>>>}

LifeInit == MapInit

\* psbt_from_tx(tx)
LifeFromTx(tx) ==
    LET st == [psbts |-> psbts, heap |-> heap]
        r == PsbtFromTxCall(st, tx)
    IN /\ Len(psbts) < MaxHeld
       /\ psbts' = r.st.psbts
       /\ heap' = r.st.heap
       /\ ret' = r.ret
       /\ call' = [op |-> "psbt_from_tx", tx |-> tx, left |-> r.tx]
       /\ UNCHANGED <<pre, rev>>

\* Psbt.deserialize(psbt_bin), with the validation
LifeDeserialize(psbt_bin) ==
    LET st == [psbts |-> psbts, heap |-> heap]
        r == PsbtDeserialize(st, psbt_bin, TRUE)
    IN /\ Len(psbts) < MaxHeld
       /\ psbts' = r.st.psbts
       /\ heap' = r.st.heap
       /\ ret' = r.ret
       /\ call' = [op |-> "deserialize", bin |-> psbt_bin, assert_valid |-> TRUE]
       /\ UNCHANGED <<pre, rev>>

\* a signer puts its signature, and the witness script, into every input
\* of the container c that has none yet
RECURSIVE SignFrom(_, _, _, _)
SignFrom(st, c, sg, i) ==
    IF i > Len(st.psbts[c].inputs) THEN st
    ELSE SignFrom(
             SetField(SetField(st, c, "inputs", i, "partial_signatures", sg[1]),
                      c, "inputs", i, "witness_script", sg[2]),
             c, sg, i + 1)

LifeSign(c, sg) ==
    LET st == [psbts |-> psbts, heap |-> heap]
        r == SignFrom(st, c, sg, 1)
    IN /\ \A i \in DOMAIN psbts[c].inputs :
              /\ heap[psbts[c].inputs[i].partial_signatures] = <<>>
              /\ psbts[c].inputs[i].final_script_sig = <<>>
              /\ psbts[c].inputs[i].final_script_witness = <<>>
       /\ psbts' = r.psbts
       /\ heap' = r.heap
       /\ ret' = NoRet
       /\ call' = [op |-> "sign", args |-> <<c>>]
       /\ UNCHANGED <<pre, rev>>

\* combine_psbts(args), args a list of containers of the caller
LifeCombine(args) ==
    LET st == [psbts |-> psbts, heap |-> heap]
        r == CombinePsbts(st, args)
    IN /\ psbts' = r.st.psbts
       /\ heap' = r.st.heap
       /\ ret' = r.ret
       /\ call' = [op |-> "combine", args |-> args]
       /\ UNCHANGED <<pre, rev>>

\* finalize_psbt(psbts[c]), the caller keeping the result
LifeFinalize(c) ==
    LET st == [psbts |-> psbts, heap |-> heap]
        r == FinalizePsbt(st, c)
    IN /\ Len(psbts) < MaxHeld
       /\ psbts' = r.st.psbts
       /\ heap' = r.st.heap
       /\ ret' = r.ret
       /\ call' = [op |-> "finalize", args |-> <<c>>]
       /\ UNCHANGED <<pre, rev>>

\* the lists of one or two different containers of the caller
HeldLists ==
    {a \in UNION {[1..n -> DOMAIN psbts] : n \in 1..2} :
        \A x, y \in DOMAIN a : x # y => a[x] # a[y]}

LifeNext ==
    \/ \E tx \in LifeTxs : LifeFromTx(tx)
    \/ \E psbt_bin \in LifeDocuments : LifeDeserialize(psbt_bin)
    \/ \E c \in DOMAIN psbts : \E sg \in LifeSignatures : LifeSign(c, sg)
    \/ \E args \in HeldLists : LifeCombine(args)
    \/ \E c \in DOMAIN psbts : LifeFinalize(c)

LifeSpec == LifeInit /\ [][LifeNext]_vars

\* C22: every container the caller holds, made by psbt_from_tx or by
\* Psbt.deserialize with the validation and then signed, combined with
\* containers of the same txid and finalized in any order, has as many inputs as
\* tx.vin, as many outputs as tx.vout, and the version 0; psbt_from_tx
\* returns a container of empty entries, one for each input and output,
\* over the transaction with script_sig and witness emptied, and leaves
\* its argument as it was
C22_StructureKept ==
    /\ \A c \in DOMAIN psbts :
           /\ Len(psbts[c].inputs) = Len(psbts[c].tx.vin)
           /\ Len(psbts[c].outputs) = Len(psbts[c].tx.vout)
           /\ psbts[c].version = 0
    /\ call.op = "psbt_from_tx" =>
           /\ ret.kind = "ref"
           /\ call.left = call.tx
           /\ LET q == Resolve(Cur, ret.ref)
              IN /\ Len(q.inputs) = Len(call.tx.vin)
                 /\ Len(q.outputs) = Len(call.tx.vout)
                 /\ \A i \in DOMAIN q.inputs :
                        \A k \in DOMAIN q.inputs[i] : q.inputs[i][k] = <<>>
                 /\ \A j \in DOMAIN q.outputs :
                        \A k \in DOMAIN q.outputs[j] : q.outputs[j][k] = <<>>
                 /\ q.tx.version = call.tx.version
                 /\ q.tx.vout = call.tx.vout
                 /\ \A i \in DOMAIN q.tx.vin :
                        /\ q.tx.vin[i].prevout = call.tx.vin[i].prevout
                        /\ q.tx.vin[i].script_sig = <<>>
                        /\ q.tx.vin[i].witness = <<>>

\* the caller holds a container made of a signed transaction, a container
\* read from a document, and the finalized copy of the combination of two
\* containers
C22_Witness ==
    /\ call.op = "finalize"
    /\ ret.kind = "ref"
    /\ Len(psbts) = 3
    /\ \E c \in DOMAIN psbts :
           Len(heap[psbts[c].inputs[1].unknown]) = 1
    /\ \E c \in DOMAIN psbts :
           Len(heap[psbts[c].inputs[1].partial_signatures]) = 2

(***************************************************************************)
(* The combiner: the containers after the first                            *)
(***************************************************************************)
\* C23: combine_psbts changes no container of the list but the first, for
\* lists of any length: every container after the first is, field for
\* field, after the call what it was before it, also when the first
\* container lacks a mapping, the second supplies it and the third has
\* further entries for it
C23_CombineChangesOnlyTheFirst ==
    (Combined /\ ret.kind = "ref") =>
        \A k \in 2..Len(call.args) :
            Resolve(Cur, call.args[k]) = Resolve(pre, call.args[k])

\* the local variable script_pubkey of assert_signable when the loop
\* comes to the input i, the inputs before it having passed
RECURSIVE ScriptPubkeyBefore(_, _)
ScriptPubkeyBefore(p, i) ==
    IF i = 1 THEN Unbound
    ELSE AssertSignableInput(p, i - 1, ScriptPubkeyBefore(p, i - 1)).script_pubkey

\* the loop of assert_signable comes to the input i
ComesTo(p, i) == FailedInput(p) = 0 \/ FailedInput(p) >= i

\* C24: what assert_signable finds for the input i depends on tx.vin[i]
\* and inputs[i] only: it is what the same checks find for this input in a
\* container in which no input comes before it, so that an input with a
\* redeem script or a witness script and no UTXO is never checked against
\* the script_pubkey of an earlier input
C24_InputCheckedOnItsOwn ==
    call.op = "assert_signable" =>
        LET p == pre.psbts[call.args[1]]
        IN \A i \in DOMAIN p.tx.vin :
               ComesTo(p, i) =>
                   AssertSignableInput(p, i, ScriptPubkeyBefore(p, i)).err
                       = AssertSignableInput(p, i, Unbound).err

(***************************************************************************)
(* Combining, then finalizing: the order of the signatures                 *)
(***************************************************************************)
\* the dicts of at most MaxSigs signatures of the keys 1..MaxSigs + 1, in
\* every insertion order
OrderSigDicts ==
    UNION {{[x \in 1..n |-> <<<<2, ks[x]>>, SigOf(ks[x])>>] :
              ks \in {s \in [1..n -> 1..(MaxSigs + 1)] :
                        \A x, y \in 1..n : x # y => s[x] # s[y]}} :
           n \in 0..MaxSigs}

\* two containers over TxA; each of the two signers has put its
\* signatures into both inputs, and the witness script if there is one
OrderInit ==
    \E da \in OrderSigDicts :
    \E db \in OrderSigDicts :
    \E ws \in WitnessScripts :
        LET a == FreshPool(<<TxA, TxA>>)
            b == SignFrom(a, 1, <<da, ws>>, 1)
            st == SignFrom(b, 2, <<db, ws>>, 1)
        IN /\ psbts = st.psbts
           /\ heap = st.heap
           /\ call = NoCall
           /\ ret = NoRet
           /\ pre = st
           /\ rev = NoRet

\* combine_psbts(args); rev is what the call on the reversed list gives
\* when made in the place of this one
OrderCombine(args) ==
    LET st == [psbts |-> psbts, heap |-> heap]
        r == CombinePsbts(st, args)
    IN /\ call = NoCall
       /\ psbts' = r.st.psbts
       /\ heap' = r.st.heap
       /\ ret' = r.ret
       /\ call' = [op |-> "combine", args |-> args, was |-> st]
       /\ pre' = st
       /\ rev' = CombinePsbts(st, Reverse(args))

\* finalize_psbt(combined), combined being what combine_psbts returned;
\* rev is what finalize_psbt gives of the combination of the reversed list
OrderFinalize ==
    LET st == [psbts |-> psbts, heap |-> heap]
        r == FinalizePsbt(st, ret.ref)
        b == FinalizePsbt(rev.st, rev.ret.ref)
    IN /\ call.op = "combine"
       /\ ret.kind = "ref"
       /\ psbts' = r.st.psbts
       /\ heap' = r.st.heap
       /\ ret' = r.ret
       /\ call' = [op |-> "finalize", args |-> <<ret.ref>>, list |-> call.args,
                   was |-> call.was]
       /\ pre' = st
       /\ rev' = IF b.ret.kind = "ref"
                 THEN [kind |-> "ref", value |-> Resolve(b.st, b.ret.ref)]
                 ELSE b.ret

OrderNext ==
    \/ \E args \in {<<1, 2>>, <<2, 1>>} : OrderCombine(args)
    \/ OrderFinalize

OrderSpec == OrderInit /\ [][OrderNext]_vars

\* the signatures of the input i of the k-th container of the list, as
\* they were before combine_psbts, in their insertion order
SigsWas(k, i) ==
    DictValues(call.was.heap[call.was.psbts[call.list[k]].inputs[i].partial_signatures])

\* the signatures of the containers of the list in the order in which the
\* containers were passed: those of the first, then those of the second
\* that the first has not
PassedOrder(i) ==
    SigsWas(1, i) \o SelectSeq(SigsWas(2, i), LAMBDA x : x \notin Range(SigsWas(1, i)))

\* the final unlocking script and the final witness stack that
\* finalize_psbt makes of the signatures sigs
FinalOf(sigs, redeem_script, witness_script) ==
    IF witness_script # <<>>
    THEN [final_script_sig |-> ScriptSerialize(<<StrTok(Hex(redeem_script))>>),
          final_script_witness |->
              (IF Len(sigs) > 1 THEN <<<<>>>> ELSE <<>>) \o sigs \o <<witness_script>>]
    ELSE [final_script_sig |->
              ScriptSerialize((IF Len(sigs) > 1 THEN <<IntTok(0)>> ELSE <<>>)
                              \o [x \in DOMAIN sigs |-> StrTok(Hex(sigs[x]))]
                              \o <<StrTok(Hex(redeem_script))>>),
          final_script_witness |-> <<>>]

\* the two final fields of an input
FinalFields(e) ==
    [final_script_sig |-> e.final_script_sig,
     final_script_witness |-> e.final_script_witness]

\* C25: in the final unlocking script or witness stack that finalize_psbt
\* makes of the result of combine_psbts, the signatures stand in the order
\* in which the containers were passed, those of the first container
\* first, each container's in its insertion order; finalize_psbt of the
\* combination of the reversed list has them in another order whenever
\* the two containers hold signatures of different keys
C25_SignaturesInPassedOrder ==
    (call.op = "finalize" /\ ret.kind = "ref") =>
        \A i \in DOMAIN psbts[ret.ref].inputs :
            LET w == call.was.psbts[call.list[1]].inputs[i]
            IN /\ FinalFields(psbts[ret.ref].inputs[i])
                    = FinalOf(PassedOrder(i), w.redeem_script, w.witness_script)
               /\ (SigsWas(1, i) # <<>> /\ SigsWas(2, i) # <<>>
                     /\ Range(SigsWas(1, i)) \cap Range(SigsWas(2, i)) = {})
                    => /\ rev.kind = "ref"
                       /\ FinalFields(rev.value.inputs[i])
                            # FinalFields(psbts[ret.ref].inputs[i])

\* the first container held two signatures and the second one of another
\* key; the witness stack of the result has the three in this order
C25_Witness ==
    /\ call.op = "finalize"
    /\ ret.kind = "ref"
    /\ Len(SigsWas(1, 1)) = 2
    /\ Len(SigsWas(2, 1)) = 1
    /\ Range(SigsWas(1, 1)) \cap Range(SigsWas(2, 1)) = {}
    /\ psbts[ret.ref].inputs[1].final_script_witness
         = <<<<>>>> \o SigsWas(1, 1) \o SigsWas(2, 1) \o <<<<81, 172>>>>
    /\ rev.kind = "ref"
    /\ rev.value.inputs[1].final_script_witness
         = <<<<>>>> \o SigsWas(2, 1) \o SigsWas(1, 1) \o <<<<81, 172>>>>

(***************************************************************************)
(* Finalizing what was finalized                                           *)
(***************************************************************************)
\* one container made by psbt_from_tx, the inputs of which the signers
\* have filled in
AgainInit ==
    \E ins \in [DOMAIN TxA.vin -> ExtSignedInputs] :
        LET st == SignInputs(FreshPool(<<TxA>>), ins, 1)
        IN /\ psbts = st.psbts
           /\ heap = st.heap
           /\ call = NoCall
           /\ ret = NoRet
           /\ pre = st
           /\ rev = NoRet

\* finalize_psbt(psbts[c]), for the first time
FinalizeOnce(c) == Finalize(c)

\* finalize_psbt(finalized), finalized being what finalize_psbt returned
FinalizeAgain ==
    LET st == [psbts |-> psbts, heap |-> heap]
        r == FinalizePsbt(st, ret.ref)
    IN /\ call.op = "finalize"
       /\ ret.kind = "ref"
       /\ psbts' = r.st.psbts
       /\ heap' = r.st.heap
       /\ ret' = r.ret
       /\ call' = [op |-> "finalize_again", args |-> <<ret.ref>>]
       /\ pre' = st
       /\ rev' = rev

AgainNext ==
    \/ \E c \in DOMAIN psbts : FinalizeOnce(c)
    \/ FinalizeAgain

AgainSpec == AgainInit /\ [][AgainNext]_vars

\* C26: finalize_psbt on the container a successful finalize_psbt returned
\* (a container with at least one input) raises "missing signatures",
\* returns no container, and leaves the finalized container, its
\* final_script_sig and final_script_witness among the rest, as it was
C26_FinalizedStaysFinalized ==
    call.op = "finalize_again" =>
        /\ ret = Raise("missing signatures")
        /\ Len(psbts) = Len(pre.psbts)
        /\ \A c \in DOMAIN pre.psbts : Resolve(Cur, c) = Resolve(pre, c)

\* the finalized container, with a final unlocking script and a final
\* witness stack in its first input, was handed to finalize_psbt again
C26_Witness ==
    /\ call.op = "finalize_again"
    /\ ret.kind = "raise"
    /\ psbts[call.args[1]].inputs[1].final_script_sig # <<>>
    /\ Len(psbts[call.args[1]].inputs[1].final_script_witness) = 4

\* C27: deserialize_map steps over the prefix of the length of a key or of
\* a value by as many bytes as the prefix has in the input, for every
\* compact size the reader of the lengths accepts, also one wider than the
\* length needs: the keys and the values it returns are the bytes that
\* follow the prefixes, and the rest is what follows the delimiter
C27_PrefixSteppedOverWhole ==
    (call.op = "deserialize_map" /\ call.place[1] = "wide"
       /\ ~RepeatsKey(call.entries)) =>
        ret = [kind |-> "map",
               map |-> MapOf(call.entries),
               rest |-> Drop(call.bin, Len(WideEntriesBytes(call.entries)) + 1)]

(***************************************************************************)
(* deserialize_map, turn by turn                                           *)
(***************************************************************************)
MaxBytes == 4   \* bytes of an input of the loop

\* the bytes of the inputs: the delimiter, two lengths, the mark of a
\* compact size of three bytes
LoopAlphabet == {0, 1, 2, 253}

\* every byte string of at most MaxBytes bytes
LoopInputs == UNION {[1..n -> LoopAlphabet] : n \in 0..MaxBytes}

\* deserialize_map(psbt_bin) is called: the check of lines 253-254 is
\* made, and the loop is about to take its first turn
LoopInit ==
    \E psbt_bin \in LoopInputs :
        /\ psbts = <<>>
        /\ heap = <<>>
        /\ call = [op |-> "deserialize_map", bin |-> psbt_bin,
                   left |-> psbt_bin, partial_map |-> <<>>, turns |-> 0]
        /\ ret = IF Len(psbt_bin) = 0
                 THEN Raise("malformed psbt: at least a map is missing")
                 ELSE NoRet
        /\ pre = [psbts |-> <<>>, heap |-> <<>>]
        /\ rev = NoRet

\* one turn of the while loop
LoopTurn ==
    LET r == DeserializeMapStep(call.left, call.partial_map)
    IN /\ ret = NoRet
       /\ IF r.kind = "next"
          THEN /\ call' = [call EXCEPT !.left = r.bin, !.partial_map = r.map,
                                       !.turns = @ + 1]
               /\ ret' = ret
          ELSE /\ call' = [call EXCEPT !.turns = @ + 1]
               /\ ret' = r
       /\ UNCHANGED <<psbts, heap, pre, rev>>

LoopNext == LoopTurn

LoopSpec == LoopInit /\ [][LoopNext]_vars

\* the loop goes on as long as it can
LoopLive == LoopSpec /\ WF_vars(LoopNext)

\* C28: deserialize_map ends on every byte string: it returns or raises
\* in the end, and every turn of its loop that neither returns nor raises
\* leaves strictly less to read, also when a value has the length zero or
\* a declared length is more than what is left
C28_LoopEnds ==
    /\ <>(ret.kind \in {"map", "raise"})
    /\ [][ret' = NoRet => Len(call'.left) < Len(call.left)]_vars

\* the loop took a turn over an entry whose value is declared longer than
\* what was left, and ended at its next turn
C28_Witness ==
    /\ call.op = "deserialize_map"
    /\ call.bin = <<1, 1, 2, 0>>
    /\ call.turns = 2
    /\ call.left = <<>>
    /\ ret = Raise("IndexError")

(***************************************************************************)
(* What follows the last map of a document                                 *)
(***************************************************************************)
\* the document of the call without what follows its last map
BareDocument == PlacedBytes(call.entries, <<>>, call.place)

\* C29: Psbt.deserialize ignores the bytes after the delimiter of the last
\* output map: a document read with bytes after that delimiter gives what
\* the same document gives without them, the same container in the same
\* state or the same error, and no error of its own
C29_TrailingBytesIgnored ==
    (call.op = "deserialize" /\ call.place[1] \in {"global", "entry"}) =>
        LET r == PsbtDeserialize(pre, BareDocument, TRUE)
        IN /\ ret = r.ret
           /\ psbts = r.st.psbts
           /\ heap = r.st.heap

\* a document with two bytes after its last map was read, and a container
\* with the entries of its second input map returned
C29_Witness ==
    /\ call.op = "deserialize"
    /\ call.place = <<"entry", 2>>
    /\ call.entries # <<>>
    /\ call.bin = BareDocument \o <<0, 15>>
    /\ ret.kind = "ref"
    /\ UnknownOf("inputs", 2) = MapOf(call.entries)

(***************************************************************************)
(* multisig_scriptPubKey                                                   *)
(***************************************************************************)
MaxKeys == 17   \* public keys of a sample list, and the largest sample m

\* a public key of any length passes
AnyPubkeyLength(pubkey) == TRUE

\* len(pubkey) in (33, 65)
PubkeyLengthAllowed(pubkey) == Len(pubkey) \in {33, 65}

\* the loop over pubkeys: the tokens appended to scriptPubKey, or the
\* error raised at the first key refused; a key is bytes, or a record
\* with the digits of a hex string, which bytes.fromhex refuses when
\* their number is odd
RECURSIVE MultisigKeys(_, _, _)
MultisigKeys(pubkeys, i, scriptPubKey) ==
    IF i > Len(pubkeys) THEN [kind |-> "script", script |-> scriptPubKey]
    ELSE IF pubkeys[i][1] = "str" /\ Len(pubkeys[i][2]) % 2 = 1
    THEN Raise("non-hexadecimal number found in fromhex()")
    ELSE
      LET pubkey == IF pubkeys[i][1] = "str" THEN FromHex(pubkeys[i][2])
                    ELSE pubkeys[i][2]
      IN IF ~PubkeyLengthAllowed(pubkey)
         THEN Raise("Invalid pubkey lenght")
         ELSE MultisigKeys(pubkeys, i + 1, Append(scriptPubKey, Hex(pubkey)))

\* multisig_scriptPubKey(m, pubkeys): the script returned, or the
\* ValueError raised
multisig_scriptPubKey(m, pubkeys) ==
    IF m < 1 \/ m > 16 THEN Raise("Invalid m")
    ELSE
      LET keys == MultisigKeys(pubkeys, 1, <<m>>)
          n == Len(keys.script) - 1
      IN IF keys.kind = "raise" THEN keys
         ELSE IF n < 1 \/ n > 16 THEN Raise("Invalid n")
         ELSE IF m > n THEN Raise("Impossible m-of-n")
         ELSE [kind |-> "script",
               script |-> keys.script \o <<n, "OP_CHECKMULTISIGVERIFY">>]

\* the i-th public key of the samples: 33 bytes, no two of them alike
CompressedKey(i) == <<2 + (i % 2)>> \o [j \in 1..32 |-> (7 * i + j) % 256]

\* the public keys put in place of a good one: one of 65 bytes, one of 33
\* bytes given as a hex string, and those refused: 32 bytes, 64 bytes, no
\* byte, 33 bytes with a digit missing
OtherKeys ==
    {<<"bytes", <<4>> \o [j \in 1..64 |-> (3 * j) % 256]>>,
     <<"str", Hex(<<3>> \o [j \in 1..32 |-> (5 * j) % 256])>>,
     <<"bytes", [j \in 1..32 |-> j]>>,
     <<"bytes", [j \in 1..64 |-> j]>>,
     <<"bytes", <<>>>>,
     <<"str", Tail(Hex(CompressedKey(1)))>>}

\* the lists of n public keys: good ones, one of them at most replaced
KeyLists ==
    UNION {
      LET good == [i \in 1..n |-> <<"bytes", CompressedKey(i)>>]
      IN {good} \cup {[good EXCEPT ![k] = o] : k \in 1..n, o \in OtherKeys}
      : n \in 0..MaxKeys}

MultisigInit == MapInit

\* a call of multisig_scriptPubKey(m, pubkeys)
Multisig(m, pubkeys) ==
    /\ call = NoCall
    /\ call' = [op |-> "multisig_scriptPubKey", m |-> m, pubkeys |-> pubkeys]
    /\ ret' = multisig_scriptPubKey(m, pubkeys)
    /\ UNCHANGED <<psbts, heap, pre, rev>>

MultisigNext == \E m \in 0..MaxKeys : \E pubkeys \in KeyLists : Multisig(m, pubkeys)

MultisigSpec == MultisigInit /\ [][MultisigNext]_vars

\* the number of bytes of a public key as it was passed, -1 for a hex
\* string that is no bytes
BytesOf(key) ==
    IF key[1] = "bytes" THEN Len(key[2])
    ELSE IF Len(key[2]) % 2 = 0 THEN Len(key[2]) \div 2 ELSE -1

\* the hex digits of a public key as it was passed
DigitsOf(key) ==
    IF key[1] = "str" THEN key[2]
    ELSE [i \in 1..(2 * Len(key[2])) |->
            LET byte == key[2][(i + 1) \div 2]
            IN IF i % 2 = 1 THEN (byte - (byte % 16)) \div 16 ELSE byte % 16]

\* C30: multisig_scriptPubKey(m, pubkeys) returns [m, the hex of each
\* public key in the order given, n, the opcode] when 1 <= m <= n <= 16
\* and every public key has 33 or 65 bytes, and raises otherwise: no
\* script is returned for m > n or for no key
C30_MultisigScript ==
    call.op = "multisig_scriptPubKey" =>
        LET n == Len(call.pubkeys)
        IN IF /\ 1 <= call.m /\ call.m <= n /\ n <= 16
              /\ \A i \in 1..n : BytesOf(call.pubkeys[i]) \in {33, 65}
           THEN /\ ret.kind = "script"
                /\ Len(ret.script) = n + 3
                /\ ret.script[1] = call.m
                /\ \A i \in 1..n : ret.script[i + 1] = DigitsOf(call.pubkeys[i])
                /\ ret.script[n + 2] = n
                /\ ret.script[n + 3] = "OP_CHECKMULTISIGVERIFY"
           ELSE ret.kind = "raise"

\* the script of 2 of 3 public keys was returned, the second key of 65
\* bytes
C30_Witness ==
    /\ call.op = "multisig_scriptPubKey"
    /\ call.m = 2
    /\ Len(call.pubkeys) = 3
    /\ BytesOf(call.pubkeys[2]) = 65
    /\ ret.kind = "script"
    /\ ret.script[2] # ret.script[4]

====
